---- MODULE Spec2Model ----
(***************************************************************************)
(* A model of the ai_weekly pipeline (benreeve1984/ai-research):           *)
(* lambda_handler and the stages it drives (load_config, harvest, enrich,  *)
(* rank, summarise, publish), plus the pure ranking functions of rank.py.  *)
(*                                                                         *)
(* Conventions                                                             *)
(*  - Python None of an Optional[int] field is the value None (-1); the    *)
(*    real values of those fields (citation counts, star counts) are >= 0. *)
(*  - A Python float that the code computes by a division is kept as an    *)
(*    exact fraction [num, den]; den = 0 stands for "not set" (None, or a  *)
(*    missing attribute).                                                  *)
(*  - Weights are kept in tenths (0.5 is 5), math.log in thousandths, so a *)
(*    score [num, den] stands for num / (den * ScoreScale).                *)
(*  - A str the code inspects character by character (int(), lower(),      *)
(*    split()) is a sequence of one-character strings; a message is a      *)
(*    sequence of fragments (literals of the source, then the characters   *)
(*    or fragments of an interpolated value).                              *)
(***************************************************************************)
EXTENDS Integers, Sequences, FiniteSets, TLC

VARIABLES
    env,          \* os.environ as load_config reads it
    config,       \* the Config load_config returned (NoConfig before)
    pc,           \* position in lambda_handler / in the unit driver
    papers,       \* the Paper objects, in harvest order (mutated in place)
    top_papers,   \* rank_papers' return value: references (indices) into papers
    intro,        \* the executive summary summarize_papers returned
    calls,        \* stages lambda_handler has invoked, in order
    returned,     \* stages that have returned normally, in order
    result,       \* the response lambda_handler returned (NoResult before)
    s3_puts,      \* objects put_object has stored successfully in this run, in order
    ses_calls,    \* send_email calls made in this run: the recipient lists
    call,         \* the arguments of a direct (unit) call of a function
    stored,       \* the objects of the S3 bucket, kept from run to run
    ret           \* what a direct (unit) call returned

vars == <<env, config, pc, papers, top_papers, intro, calls, returned, result,
          s3_puts, ses_calls, call, stored, ret>>

----------------------------------------------------------------------------
(* Bounds of the model *)

\* longest paper list handed to rank.py functions directly
MaxPapers == 3
\* most papers the feeds return to one handler run
MaxHarvest == 2
\* largest TOP_K_PAPERS / top_k tried (the smallest is -1)
MaxTopK == 3
\* number of calendar days a run can fall on
MaxDay == 2

----------------------------------------------------------------------------
(* Paper (harvest.py) and small helpers *)

None == -1

NoFrac == [num |-> 0, den |-> 0]

Frac(n, d) == [num |-> n, den |-> d]

\* Python's `x or 0` for an Optional[int]
OrZero(x) == IF x = None THEN 0 ELSE x

NoSummary == "<None>"

\* specter2_embedding = None (an embedding that is stored is a non-empty list)
NoEmbedding == <<>>

\* github_url = None
NoUrl == <<"<None>">>

\* Paper(...) as the harvesters construct it: every optional field None
Paper(id, title, source) ==
    [id |-> id, title |-> title, source |-> source, abstract |-> <<>>,
     citation_count |-> None, github_url |-> NoUrl, github_stars |-> None,
     specter2_embedding |-> NoEmbedding,
     normalized_stars |-> NoFrac, score |-> NoFrac, summary |-> NoSummary]

\* exact comparison of two fractions with positive denominators
FracGT(a, b) == a.num * b.den > b.num * a.den

FracEQ(a, b) == a.num * b.den = b.num * a.den

SeqMax(s) == CHOOSE x \in {s[i] : i \in DOMAIN s} : \A j \in DOMAIN s : s[j] <= x

SeqMin(s) == CHOOSE x \in {s[i] : i \in DOMAIN s} : \A j \in DOMAIN s : s[j] >= x

----------------------------------------------------------------------------
(* rank.py *)

\* weights are in tenths, logarithms in thousandths
WeightScale == 10

LogScale == 1000

ScoreScale == WeightScale * LogScale

\* round(1000 * math.log(n)) for n = 1..10
LnTable == <<0, 693, 1099, 1386, 1609, 1792, 1946, 2079, 2197, 2303>>

MathLog(n) == LnTable[n]

normalize_github_stars_ratio(papers_) ==
    \* mutant: scales by the maximum alone (stars / max) instead of min-max
    IF papers_ = <<>> THEN papers_
    ELSE LET star_counts == [i \in DOMAIN papers_ |-> OrZero(papers_[i].github_stars)]
             max_stars == SeqMax(star_counts)
         IN  IF max_stars = 0
             THEN [i \in DOMAIN papers_ |->
                      [papers_[i] EXCEPT !.normalized_stars = Frac(0, 1)]]
             ELSE [i \in DOMAIN papers_ |->
                      [papers_[i] EXCEPT !.normalized_stars =
                          Frac(star_counts[i], max_stars)]]

normalize_github_stars(papers_) ==
    IF papers_ = <<>> THEN papers_
    ELSE LET star_counts == [i \in DOMAIN papers_ |-> OrZero(papers_[i].github_stars)]
             max_stars == SeqMax(star_counts)
             min_stars == SeqMin(star_counts)
         IN  IF max_stars = min_stars
             THEN [i \in DOMAIN papers_ |->
                      [papers_[i] EXCEPT !.normalized_stars = Frac(0, 1)]]
             ELSE [i \in DOMAIN papers_ |->
                      [papers_[i] EXCEPT !.normalized_stars =
                          Frac(star_counts[i] - min_stars, max_stars - min_stars)]]

\* getattr(paper, '_normalized_stars', 0.0)
NormalizedOrDefault(paper) ==
    IF paper.normalized_stars.den = 0 THEN Frac(0, 1) ELSE paper.normalized_stars

calculate_paper_score_social(paper, citation_weight, github_weight, social_weight) ==
    \* mutant: the social component is live (1.0) instead of the 0.0 placeholder
    LET citations == OrZero(paper.citation_count)
        citation_score == MathLog(citations + 1)
        github_score == NormalizedOrDefault(paper)
        social_score == LogScale
    IN  Frac((citation_weight * citation_score + social_weight * social_score)
                 * github_score.den
             + github_weight * LogScale * github_score.num,
             github_score.den)

calculate_paper_score(paper, citation_weight, github_weight, social_weight) ==
    LET citations == OrZero(paper.citation_count)
        citation_score == MathLog(citations + 1)
        github_score == NormalizedOrDefault(paper)
        social_score == 0
    IN  Frac((citation_weight * citation_score + social_weight * social_score)
                 * github_score.den
             + github_weight * LogScale * github_score.num,
             github_score.den)

\* the sort key of rank_papers: `p.score or 0`
SortKey(paper) == IF paper.score.den = 0 THEN Frac(0, 1) ELSE paper.score

InsertDescUnstable(ps, order, i) ==
    \* mutant: an equal key goes before the earlier paper (ties are reversed)
    LET notgreater == {k \in DOMAIN order :
                          ~FracGT(SortKey(ps[order[k]]), SortKey(ps[i]))}
        pos == IF notgreater = {} THEN Len(order) + 1
               ELSE CHOOSE k \in notgreater : \A m \in notgreater : k <= m
    IN  SubSeq(order, 1, pos - 1) \o <<i>> \o SubSeq(order, pos, Len(order))

\* one step of a stable descending sort: index i goes before the first index
\* whose key is strictly smaller, hence after every index with an equal key
InsertDesc(ps, order, i) ==
    LET smaller == {k \in DOMAIN order :
                       FracGT(SortKey(ps[i]), SortKey(ps[order[k]]))}
        pos == IF smaller = {} THEN Len(order) + 1
               ELSE CHOOSE k \in smaller : \A m \in smaller : k <= m
    IN  SubSeq(order, 1, pos - 1) \o <<i>> \o SubSeq(order, pos, Len(order))

RECURSIVE SortedDescFrom(_, _, _)
SortedDescFrom(ps, order, i) ==
    IF i > Len(ps) THEN order
    ELSE SortedDescFrom(ps, InsertDesc(ps, order, i), i + 1)

\* sorted(papers, key=lambda p: p.score or 0, reverse=True), as indices
SortedDesc(ps) == SortedDescFrom(ps, <<>>, 1)

\* the slice s[:k] of Python, for any integer k
SliceTo(s, k) ==
    LET stop == IF k >= 0 THEN (IF k > Len(s) THEN Len(s) ELSE k)
                ELSE (IF Len(s) + k < 0 THEN 0 ELSE Len(s) + k)
    IN  SubSeq(s, 1, stop)

rank_papers_top_scored(papers_, top_k, citation_weight, github_weight, social_weight) ==
    \* mutant: only the first top_k papers of the input are scored
    IF papers_ = <<>> THEN [papers |-> papers_, top |-> <<>>]
    ELSE LET normalized == normalize_github_stars(papers_)
             scored == [i \in DOMAIN normalized |->
                           IF i > top_k THEN normalized[i]
                           ELSE [normalized[i] EXCEPT !.score =
                                    calculate_paper_score(normalized[i], citation_weight,
                                                          github_weight, social_weight)]]
             ranked_papers == SortedDesc(scored)
         IN  [papers |-> scored, top |-> SliceTo(ranked_papers, top_k)]

\* rank_papers: the scored objects, and the returned list as references
rank_papers(papers_, top_k, citation_weight, github_weight, social_weight) ==
    IF papers_ = <<>> THEN [papers |-> papers_, top |-> <<>>]
    ELSE LET normalized == normalize_github_stars(papers_)
             scored == [i \in DOMAIN normalized |->
                           [normalized[i] EXCEPT !.score =
                               calculate_paper_score(normalized[i], citation_weight,
                                                     github_weight, social_weight)]]
             ranked_papers == SortedDesc(scored)
         IN  [papers |-> scored, top |-> SliceTo(ranked_papers, top_k)]

----------------------------------------------------------------------------
(* str helpers: the conversions load_config and lambda_handler apply *)

\* an environment variable that is not set; also None of an Optional[str]
Unset == <<"<unset>">>

\* truth value of an Optional[str]: None and "" are falsy
Truthy(s) == s # Unset /\ s # <<>>

Digits == <<"0", "1", "2", "3", "4", "5", "6", "7", "8", "9">>

IsDigit(c) == \E d \in DOMAIN Digits : Digits[d] = c

DigitVal(c) == (CHOOSE d \in DOMAIN Digits : Digits[d] = c) - 1

RECURSIVE DigitsValue(_, _)
DigitsValue(s, acc) ==
    IF s = <<>> THEN acc ELSE DigitsValue(Tail(s), acc * 10 + DigitVal(Head(s)))

\* str.isspace() of one character
IsSpace(c) == c \in {" ", "\n", "\t"}

RECURSIVE LStrip(_)
LStrip(s) == IF s # <<>> /\ IsSpace(Head(s)) THEN LStrip(Tail(s)) ELSE s

RECURSIVE RStrip(_)
RStrip(s) ==
    IF s # <<>> /\ IsSpace(s[Len(s)]) THEN RStrip(SubSeq(s, 1, Len(s) - 1)) ELSE s

\* str.strip()
Strip(s) == RStrip(LStrip(s))

\* int(s): surrounding whitespace, an optional sign, then decimal digits;
\* anything else raises ValueError (ok = FALSE)
ParseInt(s) ==
    LET t == Strip(s)
        signed == t # <<>> /\ Head(t) \in {"-", "+"}
        body == IF signed THEN Tail(t) ELSE t
    IN  IF body = <<>> \/ \E i \in DOMAIN body : ~IsDigit(body[i])
        THEN [ok |-> FALSE, value |-> 0]
        ELSE [ok |-> TRUE,
              value |-> IF signed /\ Head(t) = "-" THEN 0 - DigitsValue(body, 0)
                        ELSE DigitsValue(body, 0)]

RECURSIVE NatToStr(_)
NatToStr(n) ==
    IF n < 10 THEN <<Digits[n + 1]>>
    ELSE NatToStr(n \div 10) \o <<Digits[(n % 10) + 1]>>

\* the decimal text of an integer, as an operator sets TOP_K_PAPERS
IntToStr(k) == IF k < 0 THEN <<"-">> \o NatToStr(0 - k) ELSE NatToStr(k)

LowerChar(c) ==
    CASE c = "A" -> "a" [] c = "I" -> "i" [] c = "O" -> "o"
      [] c = "C" -> "c" [] c = "H" -> "h" [] c = "N" -> "n"
      [] c = "P" -> "p" [] c = "R" -> "r" [] c = "T" -> "t"
      [] c = "B" -> "b" [] c = "D" -> "d" [] c = "G" -> "g"
      [] c = "M" -> "m" [] c = "S" -> "s" [] c = "U" -> "u"
      [] OTHER -> c

\* str.lower()
Lower(s) == [i \in DOMAIN s |-> LowerChar(s[i])]

RECURSIVE SplitComma(_, _)
SplitComma(s, cur) ==
    IF s = <<>> THEN <<cur>>
    ELSE IF Head(s) = "," THEN <<cur>> \o SplitComma(Tail(s), <<>>)
    ELSE SplitComma(Tail(s), Append(cur, Head(s)))

\* [x.strip() for x in raw.split(",")]
SplitSubscribers(raw) ==
    LET parts == SplitComma(raw, <<>>)
    IN  [i \in DOMAIN parts |-> Strip(parts[i])]

STR_openai == <<"o", "p", "e", "n", "a", "i">>

STR_OpenAI == <<"O", "p", "e", "n", "A", "I">>

STR_anthropic == <<"a", "n", "t", "h", "r", "o", "p", "i", "c">>

STR_gemini == <<"g", "e", "m", "i", "n", "i">>

----------------------------------------------------------------------------
(* config.py *)

DefaultCitationWeight == 5

DefaultGithubWeight == 3

DefaultSocialWeight == 2

DefaultDaysLookback == <<"7">>

DefaultTopK == <<"1", "0">>

DefaultModel == <<"gpt-4o-mini">>

\* None of an Optional[List[str]]
NoneList == <<Unset>>

\* truth value of an Optional[List[str]]: None and [] are falsy
TruthyListNoneOnly(l) ==
    \* mutant: only None is falsy, an empty list is not
    l # NoneList

\* truth value of an Optional[List[str]]: None and [] are falsy
TruthyList(l) == l # NoneList /\ l # <<>>

NoConfig ==
    [report_bucket |-> Unset, llm_backend |-> Unset, llm_model |-> Unset,
     ses_sender |-> Unset, subscribers |-> NoneList,
     days_lookback |-> None, top_k_papers |-> None,
     openai_api_key |-> Unset, anthropic_api_key |-> Unset,
     citation_weight |-> 0, github_weight |-> 0, social_weight |-> 0]

\* os.environ.get(name, default)
EnvGet(e, name, default) == IF e[name] = Unset THEN default ELSE e[name]

\* The key material load_config finds: in Secrets Manager when SECRET_NAME is
\* set (sm_ok: get_secret_value and json.loads succeeded), else in the
\* environment.  A key that is absent is Unset (None).
KeyValues == {Unset, <<"sk-key">>}

KeySources ==
    [SECRET_NAME : {Unset, <<"ai-weekly/secrets">>}, sm_ok : BOOLEAN,
     OPENAI_API_KEY : KeyValues, ANTHROPIC_API_KEY : KeyValues]

load_config_unchecked(e, keys) ==
    \* mutant: the REPORT_BUCKET check is missing
    LET days == ParseInt(EnvGet(e, "DAYS_LOOKBACK", DefaultDaysLookback))
        topk == ParseInt(EnvGet(e, "TOP_K_PAPERS", DefaultTopK))
    IN  [ok |-> TRUE, error |-> <<>>, error_type |-> "",
         config |-> [NoConfig EXCEPT
             !.report_bucket = EnvGet(e, "REPORT_BUCKET", <<>>),
             !.llm_backend = EnvGet(e, "LLM_BACKEND", STR_openai),
             !.llm_model = EnvGet(e, "LLM_MODEL", DefaultModel),
             !.ses_sender = e["SES_SENDER"],
             !.days_lookback = days.value,
             !.top_k_papers = topk.value,
             !.citation_weight = DefaultCitationWeight,
             !.github_weight = DefaultGithubWeight,
             !.social_weight = DefaultSocialWeight]]

\* load_config: [ok, error, error_type, config]; ok = FALSE when it raises
load_config(e, keys) ==
    LET report_bucket == EnvGet(e, "REPORT_BUCKET", <<>>)
        days == ParseInt(EnvGet(e, "DAYS_LOOKBACK", DefaultDaysLookback))
        topk == ParseInt(EnvGet(e, "TOP_K_PAPERS", DefaultTopK))
        subscribers_raw == e["SUBSCRIBERS"]
        from_store == keys.SECRET_NAME = Unset \/ keys.sm_ok
        raise(text) == [ok |-> FALSE, error |-> text, error_type |-> "ValueError",
                        config |-> NoConfig]
    IN  IF ~Truthy(report_bucket)
        THEN raise(<<"REPORT_BUCKET environment variable must be set">>)
        ELSE IF ~days.ok
        THEN raise(<<"invalid literal for int() with base 10: ">>
                       \o EnvGet(e, "DAYS_LOOKBACK", DefaultDaysLookback))
        ELSE IF ~topk.ok
        THEN raise(<<"invalid literal for int() with base 10: ">>
                       \o EnvGet(e, "TOP_K_PAPERS", DefaultTopK))
        ELSE [ok |-> TRUE, error |-> <<>>, error_type |-> "",
              config |-> [NoConfig EXCEPT
                  !.report_bucket = report_bucket,
                  !.llm_backend = EnvGet(e, "LLM_BACKEND", STR_openai),
                  !.llm_model = EnvGet(e, "LLM_MODEL", DefaultModel),
                  !.ses_sender = e["SES_SENDER"],
                  !.days_lookback = days.value,
                  !.top_k_papers = topk.value,
                  !.subscribers =
                      IF Truthy(subscribers_raw)
                      THEN SplitSubscribers(subscribers_raw) ELSE NoneList,
                  !.openai_api_key =
                      IF from_store THEN keys.OPENAI_API_KEY ELSE Unset,
                  !.anthropic_api_key =
                      IF from_store THEN keys.ANTHROPIC_API_KEY ELSE Unset,
                  !.citation_weight = DefaultCitationWeight,
                  !.github_weight = DefaultGithubWeight,
                  !.social_weight = DefaultSocialWeight]]

----------------------------------------------------------------------------
(* summarise.py *)

DisabledSummary == "Summary generation disabled - no API key provided."

DisabledIntro == "AI research summary generation is currently disabled."

FailedSummary == "Summary generation failed due to technical error."

FailedIntro ==
    "This week's AI research summary could not be generated due to technical difficulties."

ClientFailedSummary == "Summary generation failed."

ClientFallbackIntro ==
    "This week's AI research showcases continued progress across machine learning, computer vision, and natural language processing domains."

LLMSummary == "<summary text of the model>"

LLMIntro == "<executive summary text of the model>"

NoIntro == "<None>"

\* What the provider does during one summarize_papers call:
\*   init   constructing the client succeeds (FALSE: the library is missing or
\*          its constructor raises)
\*   fails  the completion calls that raise (network, auth, quota) or answer
\*          with no content, by their number in the call: 1..n are the
\*          papers' calls, n+1 is the executive summary's
LLMOutcome(init, fails) == [init |-> init, fails |-> fails]

\* the outcomes a handler run tries: all calls answer, all calls raise, no client
LLMOutcomes ==
    {LLMOutcome(TRUE, {}), LLMOutcome(TRUE, 1..(MaxHarvest + 1)),
     LLMOutcome(FALSE, {})}

\* create_llm_client: TRUE when a client is returned, FALSE when it raises
create_llm_client(backend, llm) ==
    /\ Lower(backend) \in {STR_openai, STR_anthropic}
    /\ llm.init

\* OpenAIClient/AnthropicClient.generate_summary, the k-th completion call:
\* API errors are caught inside
generate_summary(llm, k) ==
    IF k \in llm.fails THEN ClientFailedSummary ELSE LLMSummary

\* OpenAIClient/AnthropicClient.generate_intro, the k-th completion call:
\* API errors are caught inside
generate_intro(llm, k) ==
    IF k \in llm.fails THEN ClientFallbackIntro ELSE LLMIntro

\* for k, paper in enumerate(refs): paper.summary = text[k]
SetSummaries(ps, refs, text) ==
    [i \in DOMAIN ps |->
        IF \E k \in DOMAIN refs : refs[k] = i
        THEN LET last == CHOOSE k \in DOMAIN refs :
                            /\ refs[k] = i
                            /\ \A j \in DOMAIN refs : refs[j] = i => j <= k
             IN  [ps[i] EXCEPT !.summary = text[last]]
        ELSE ps[i]]

summarize_papers_none_only(ps, refs, backend, api_key, llm) ==
    \* mutant: only a None key disables summaries, an empty one does not
    LET disabled == [k \in DOMAIN refs |-> DisabledSummary]
        summary == [k \in DOMAIN refs |-> generate_summary(llm, k)]
        failed == [k \in DOMAIN refs |-> FailedSummary]
    IN  IF api_key = Unset
        THEN [papers |-> SetSummaries(ps, refs, disabled),
              intro |-> DisabledIntro, client |-> FALSE, api_calls |-> 0]
        ELSE IF create_llm_client(backend, llm)
        THEN [papers |-> SetSummaries(ps, refs, summary),
              intro |-> generate_intro(llm, Len(refs) + 1), client |-> TRUE,
              api_calls |-> Len(refs) + 1]
        ELSE [papers |-> SetSummaries(ps, refs, failed),
              intro |-> FailedIntro, client |-> FALSE, api_calls |-> 0]

summarize_papers_all_or_nothing(ps, refs, backend, api_key, llm) ==
    \* mutant: an error of any completion call reaches summarize_papers' handler
    LET disabled == [k \in DOMAIN refs |-> DisabledSummary]
        summary == [k \in DOMAIN refs |-> generate_summary(llm, k)]
        failed == [k \in DOMAIN refs |-> FailedSummary]
    IN  IF ~Truthy(api_key)
        THEN [papers |-> SetSummaries(ps, refs, disabled),
              intro |-> DisabledIntro, client |-> FALSE, api_calls |-> 0]
        ELSE IF create_llm_client(backend, llm)
                  /\ llm.fails \cap (1..(Len(refs) + 1)) = {}
        THEN [papers |-> SetSummaries(ps, refs, summary),
              intro |-> generate_intro(llm, Len(refs) + 1), client |-> TRUE,
              api_calls |-> Len(refs) + 1]
        ELSE [papers |-> SetSummaries(ps, refs, failed),
              intro |-> FailedIntro, client |-> create_llm_client(backend, llm),
              api_calls |-> 0]

\* summarize_papers(papers=refs, backend, api_key, model): the objects after
\* the call, the intro, whether a client was constructed, and the number of
\* completion calls made
summarize_papers(ps, refs, backend, api_key, llm) ==
    LET disabled == [k \in DOMAIN refs |-> DisabledSummary]
        summary == [k \in DOMAIN refs |-> generate_summary(llm, k)]
        failed == [k \in DOMAIN refs |-> FailedSummary]
    IN  IF ~Truthy(api_key)
        THEN [papers |-> SetSummaries(ps, refs, disabled),
              intro |-> DisabledIntro, client |-> FALSE, api_calls |-> 0]
        ELSE IF create_llm_client(backend, llm)
        THEN [papers |-> SetSummaries(ps, refs, summary),
              intro |-> generate_intro(llm, Len(refs) + 1), client |-> TRUE,
              api_calls |-> Len(refs) + 1]
        ELSE [papers |-> SetSummaries(ps, refs, failed),
              intro |-> FailedIntro, client |-> FALSE, api_calls |-> 0]

----------------------------------------------------------------------------
(* publish.py *)

\* the days datetime.now() can fall on: 2024-12-31, 2025-01-01, 2025-01-02, ...
Dates == 1..MaxDay

Year(date) == IF date = 1 THEN 2024 ELSE 2025

Month(date) == IF date = 1 THEN 12 ELSE 1

\* the three object keys of one date: latest/ai-weekly-<date>.md,
\* reports/<year>/<month>/ai-weekly-<date>.md, history/papers-<date>.parquet
\* (year and month are 0 where the key has no such part)
LatestKey(date) ==
    [dir |-> "latest/", year |-> 0, month |-> 0, name |-> "ai-weekly-", date |-> date]

VersionedKeyFlat(date) ==
    \* mutant: the archive key has no year/month path
    [dir |-> "reports/", year |-> 0, month |-> 0, name |-> "ai-weekly-", date |-> date]

VersionedKey(date) ==
    [dir |-> "reports/", year |-> Year(date), month |-> Month(date),
     name |-> "ai-weekly-", date |-> date]

HistoryKey(date) ==
    [dir |-> "history/", year |-> 0, month |-> 0, name |-> "papers-", date |-> date]

NoKey == [dir |-> "", year |-> 0, month |-> 0, name |-> "", date |-> 0]

\* MarkdownGenerator.generate_report: the report text, by what it is made of
generate_report(ps, refs, intro_, date) ==
    [papers |-> [k \in DOMAIN refs |-> ps[refs[k]]], intro |-> intro_, date |-> date]

\* save_paper_data: the parquet bytes (every Paper.to_dict() and the date)
to_parquet(ps, refs, date) ==
    [papers |-> [k \in DOMAIN refs |-> ps[refs[k]]], intro |-> NoIntro, date |-> date]

\* the object one successful put_object call stores
S3Object(key, body, content_type) ==
    [key |-> key, body |-> body, content_type |-> content_type]

S3StoreVersions(objects, puts) ==
    \* mutant: a put adds an object and leaves the one under its key in place
    objects \cup {puts[k] : k \in DOMAIN puts}

\* the bucket after the put_object calls puts: a put overwrites its key
S3Store(objects, puts) ==
    {o \in objects : \A k \in DOMAIN puts : puts[k].key # o.key}
        \cup {puts[k] : k \in DOMAIN puts}

S3Url(bucket, key) == [bucket |-> bucket, key |-> key]

\* which put_object call of the run fails with ClientError, if any
S3Outcomes == {"none", "latest", "versioned", "history"}

\* send_email: accepted, rejected with ClientError, or another exception
\* (botocore's BotoCoreError family is not a ClientError)
SESOutcomes == {"ok", "client_error", "other_error"}

publish_report_swallow(ps, refs, intro_, bucket_name, sender_email, recipients, date, s3, ses) ==
    \* mutant: a failed archive or history upload is logged and not re-raised
    LET configured == Truthy(sender_email) /\ TruthyList(recipients)
        markdown_content == generate_report(ps, refs, intro_, date)
        all_puts ==
            <<S3Object(LatestKey(date), markdown_content, "text/markdown"),
              S3Object(VersionedKey(date), markdown_content, "text/markdown"),
              S3Object(HistoryKey(date), to_parquet(ps, refs, date),
                       "application/octet-stream")>>
        record(sent) ==
            [latest_url |-> S3Url(bucket_name, LatestKey(date)),
             versioned_url |-> S3Url(bucket_name, VersionedKey(date)),
             data_url |-> S3Url(bucket_name, HistoryKey(date)),
             email_sent |-> sent]
        raise(text, puts, emails) ==
            [ok |-> puts # <<>> /\ emails = <<>>, error |-> text, puts |-> puts,
             emails |-> emails,
             result |-> IF puts # <<>> /\ emails = <<>> THEN <<record(FALSE)>>
                        ELSE <<>>]
    IN  IF \E k \in DOMAIN refs : ps[refs[k]].score.den = 0
        THEN raise(<<"unsupported format string passed to NoneType.__format__">>,
                   <<>>, <<>>)
        ELSE IF s3 = "latest"
        THEN raise(<<"An error occurred calling the PutObject operation">>, <<>>, <<>>)
        ELSE IF s3 = "versioned"
        THEN raise(<<"An error occurred calling the PutObject operation">>,
                   SubSeq(all_puts, 1, 1), <<>>)
        ELSE IF s3 = "history"
        THEN raise(<<"An error occurred calling the PutObject operation">>,
                   SubSeq(all_puts, 1, 2), <<>>)
        ELSE IF ~configured
        THEN [ok |-> TRUE, error |-> <<>>, puts |-> all_puts, emails |-> <<>>,
              result |-> <<record(FALSE)>>]
        ELSE IF ses = "other_error"
        THEN raise(<<"send_email failed">>, all_puts, <<recipients>>)
        ELSE [ok |-> TRUE, error |-> <<>>, puts |-> all_puts,
              emails |-> <<recipients>>, result |-> <<record(ses = "ok")>>]

publish_report_email_first(ps, refs, intro_, bucket_name, sender_email, recipients, date, s3, ses) ==
    \* mutant: the email goes out before the uploads
    LET configured == Truthy(sender_email) /\ TruthyList(recipients)
        emails == IF configured THEN <<recipients>> ELSE <<>>
        markdown_content == generate_report(ps, refs, intro_, date)
        all_puts ==
            <<S3Object(LatestKey(date), markdown_content, "text/markdown"),
              S3Object(VersionedKey(date), markdown_content, "text/markdown"),
              S3Object(HistoryKey(date), to_parquet(ps, refs, date),
                       "application/octet-stream")>>
        written == CASE s3 = "latest" -> 0 [] s3 = "versioned" -> 1
                     [] s3 = "history" -> 2 [] OTHER -> 3
    IN  IF \E k \in DOMAIN refs : ps[refs[k]].score.den = 0
        THEN [ok |-> FALSE, puts |-> <<>>, emails |-> <<>>, result |-> <<>>,
              error |-> <<"unsupported format string passed to NoneType.__format__">>]
        ELSE IF configured /\ ses = "other_error"
        THEN [ok |-> FALSE, puts |-> <<>>, emails |-> emails, result |-> <<>>,
              error |-> <<"send_email failed">>]
        ELSE IF written < 3
        THEN [ok |-> FALSE, puts |-> SubSeq(all_puts, 1, written), emails |-> emails,
              result |-> <<>>,
              error |-> <<"An error occurred calling the PutObject operation">>]
        ELSE [ok |-> TRUE, error |-> <<>>, puts |-> all_puts, emails |-> emails,
              result |-> <<[latest_url |-> S3Url(bucket_name, LatestKey(date)),
                            versioned_url |-> S3Url(bucket_name, VersionedKey(date)),
                            data_url |-> S3Url(bucket_name, HistoryKey(date)),
                            email_sent |-> configured /\ ses = "ok"]>>]

\* publish_report: [ok, error, puts, emails, result]; ok = FALSE when it raises
publish_report(ps, refs, intro_, bucket_name, sender_email, recipients, date, s3, ses) ==
    LET raise(text, puts, emails) ==
            [ok |-> FALSE, error |-> text, puts |-> puts, emails |-> emails,
             result |-> <<>>]
        configured == Truthy(sender_email) /\ TruthyList(recipients)
        markdown_content == generate_report(ps, refs, intro_, date)
        all_puts ==
            <<S3Object(LatestKey(date), markdown_content, "text/markdown"),
              S3Object(VersionedKey(date), markdown_content, "text/markdown"),
              S3Object(HistoryKey(date), to_parquet(ps, refs, date),
                       "application/octet-stream")>>
        record(sent) ==
            [latest_url |-> S3Url(bucket_name, LatestKey(date)),
             versioned_url |-> S3Url(bucket_name, VersionedKey(date)),
             data_url |-> S3Url(bucket_name, HistoryKey(date)),
             email_sent |-> sent]
    IN  IF \E k \in DOMAIN refs : ps[refs[k]].score.den = 0
        THEN raise(<<"unsupported format string passed to NoneType.__format__">>,
                   <<>>, <<>>)
        ELSE IF s3 = "latest"
        THEN raise(<<"An error occurred calling the PutObject operation">>, <<>>, <<>>)
        ELSE IF s3 = "versioned"
        THEN raise(<<"An error occurred calling the PutObject operation">>,
                   SubSeq(all_puts, 1, 1), <<>>)
        ELSE IF s3 = "history"
        THEN raise(<<"An error occurred calling the PutObject operation">>,
                   SubSeq(all_puts, 1, 2), <<>>)
        ELSE IF ~configured
        THEN [ok |-> TRUE, error |-> <<>>, puts |-> all_puts, emails |-> <<>>,
              result |-> <<record(FALSE)>>]
        ELSE IF ses = "other_error"
        THEN raise(<<"send_email failed">>, all_puts, <<recipients>>)
        ELSE [ok |-> TRUE, error |-> <<>>, puts |-> all_puts,
              emails |-> <<recipients>>, result |-> <<record(ses = "ok")>>]

----------------------------------------------------------------------------
(* enrich.py: SemanticScholarEnricher._titles_similar *)

\* longest title (in distinct words) given to _titles_similar
MaxWords == 5

\* the characters re.sub(r"[^\w\s]", "", ...) removes
IsPunctuation(c) == c \in {"!", ",", ".", ":", "-", "?"}

\* re.sub(r"[^\w\s]", "", title.lower())
CleanTitle(title) == SelectSeq(Lower(title), LAMBDA c : ~IsPunctuation(c))

RECURSIVE SplitWhitespace(_, _)
\* str.split(): the maximal runs of non-whitespace characters
SplitWhitespace(s, cur) ==
    IF s = <<>> THEN (IF cur = <<>> THEN <<>> ELSE <<cur>>)
    ELSE IF IsSpace(Head(s))
    THEN (IF cur = <<>> THEN <<>> ELSE <<cur>>) \o SplitWhitespace(Tail(s), <<>>)
    ELSE SplitWhitespace(Tail(s), Append(cur, Head(s)))

\* set(title_clean.split())
TitleWords(title) ==
    LET words == SplitWhitespace(CleanTitle(title), <<>>)
    IN  {words[i] : i \in DOMAIN words}

\* threshold: float = 0.8
DefaultThreshold == Frac(8, 10)

titles_similar_strict(title1, title2, threshold) ==
    \* mutant: the similarity has to exceed the threshold
    LET words1 == TitleWords(title1)
        words2 == TitleWords(title2)
        intersection == Cardinality(words1 \cap words2)
        union == Cardinality(words1 \cup words2)
    IN  IF words1 = {} \/ words2 = {} THEN FALSE
        ELSE FracGT(Frac(intersection, union), threshold)

\* _titles_similar(title1, title2, threshold)
titles_similar(title1, title2, threshold) ==
    LET words1 == TitleWords(title1)
        words2 == TitleWords(title2)
        intersection == Cardinality(words1 \cap words2)
        union == Cardinality(words1 \cup words2)
        jaccard == Frac(intersection, union)
    IN  IF words1 = {} \/ words2 = {} THEN FALSE
        ELSE FracGT(jaccard, threshold) \/ FracEQ(jaccard, threshold)

----------------------------------------------------------------------------
(* enrich.py: SemanticScholarEnricher *)

\* the largest citation count a SemanticScholar record reports here
MaxCites == 1

\* a record of the SemanticScholar API. paperId: Unset when the record has no
\* paperId key. title: <<>> when it has no title key. citationCount: None when
\* it has no citationCount key, otherwise the integer the API reports
S2Record(paperId, title, citationCount) ==
    [paperId |-> paperId, title |-> title, citationCount |-> citationCount]

\* a response of the HTTP session: status 0 stands for session.get raising
\* (timeout, connection error) or response.json() raising; body is what
\* response.json() returns, a sequence of records (<<>>: {} or an empty "data"
\* list) or the embedding vector (<<>>: no "embedding" key)
Response(status, body) == [status |-> status, body |-> body]

\* self._search_by_arxiv_id(paper.id): the record, or <<>> for None / {}
search_by_arxiv_id(s2) ==
    IF s2.arxiv.status = 200 THEN s2.arxiv.body ELSE <<>>

search_by_title_unchecked(title, s2) ==
    \* mutant: the first search result is taken whatever its title
    IF s2.search.status = 200 /\ s2.search.body # <<>>
    THEN <<s2.search.body[1]>>
    ELSE <<>>

\* self._search_by_title(paper.title): the first search result when its title
\* is similar enough, otherwise None (<<>>)
search_by_title(title, s2) ==
    IF s2.search.status = 200 /\ s2.search.body # <<>>
    THEN LET found_paper == s2.search.body[1]
         IN  IF titles_similar(title, found_paper.title, DefaultThreshold)
             THEN <<found_paper>>
             ELSE <<>>
    ELSE <<>>

\* self._get_embedding(paper_id)
get_embedding(paper_id, s2) ==
    IF ~Truthy(paper_id) THEN NoEmbedding
    ELSE IF s2.embedding.status = 200 THEN s2.embedding.body
    ELSE NoEmbedding

SemanticScholarEnricher_enrich_paper_no_default(paper, s2) ==
    \* mutant: nothing is assigned when no record matches
    LET by_id == IF paper.source = "arxiv" THEN search_by_arxiv_id(s2) ELSE <<>>
        by_title == IF by_id = <<>> THEN search_by_title(paper.title, s2) ELSE <<>>
        s2_paper == IF by_id # <<>> THEN by_id ELSE by_title
        paper_id == IF s2_paper # <<>> THEN s2_paper[1].paperId ELSE Unset
        embedding == get_embedding(paper_id, s2)
    IN  [paper |->
             IF s2_paper = <<>> THEN paper
             ELSE [paper EXCEPT
                      !.citation_count = OrZero(s2_paper[1].citationCount),
                      !.specter2_embedding =
                          IF embedding # <<>> THEN embedding ELSE @],
         s2_paper |-> s2_paper,
         requests |->
             (IF paper.source = "arxiv" THEN <<"arxiv">> ELSE <<>>)
                 \o (IF by_id = <<>> THEN <<"search">> ELSE <<>>)
                 \o (IF Truthy(paper_id) THEN <<"embedding">> ELSE <<>>)]

\* SemanticScholarEnricher.enrich_paper(paper): the paper as returned, the
\* record it was matched with (<<>>: none) and the requests sent, in order. The lookups catch their own exceptions, so the
\* except branch of enrich_paper (citation_count = 0) has nothing more to catch
SemanticScholarEnricher_enrich_paper(paper, s2) ==
    LET by_id == IF paper.source = "arxiv" THEN search_by_arxiv_id(s2) ELSE <<>>
        by_title == IF by_id = <<>> THEN search_by_title(paper.title, s2) ELSE <<>>
        s2_paper == IF by_id # <<>> THEN by_id ELSE by_title
        paper_id == IF s2_paper # <<>> THEN s2_paper[1].paperId ELSE Unset
        embedding == get_embedding(paper_id, s2)
    IN  [paper |->
             IF s2_paper = <<>> THEN [paper EXCEPT !.citation_count = 0]
             ELSE [paper EXCEPT
                      \* s2_paper.get("citationCount", 0)
                      !.citation_count = OrZero(s2_paper[1].citationCount),
                      !.specter2_embedding =
                          IF embedding # <<>> THEN embedding ELSE @],
         s2_paper |-> s2_paper,
         requests |->
             (IF paper.source = "arxiv" THEN <<"arxiv">> ELSE <<>>)
                 \o (IF by_id = <<>> THEN <<"search">> ELSE <<>>)
                 \o (IF Truthy(paper_id) THEN <<"embedding">> ELSE <<>>)]

----------------------------------------------------------------------------
(* enrich.py: GitHubEnricher *)

\* the largest star count the GitHub API reports here
MaxStarCount == 1

STR_github_com == <<"g", "i", "t", "h", "u", "b", ".", "c", "o", "m", "/">>

STR_http == <<"h", "t", "t", "p">>

STR_scheme_http == STR_http \o <<":", "/", "/">>

STR_scheme_https == STR_http \o <<"s", ":", "/", "/">>

\* [a-zA-Z0-9_.-], told apart from the other characters of the texts used here
IsRepoChar(c) == ~IsSpace(c) /\ c \notin {"/", ":", ",", "(", ")", "!", "?"}

\* [^/]
IsNotSlash(c) == c # "/"

\* text[i..] starts with prefix; ignorecase: re.IGNORECASE
StartsWithAt(text, i, prefix, ignorecase) ==
    /\ i + Len(prefix) - 1 <= Len(text)
    /\ \A k \in DOMAIN prefix :
          IF ignorecase THEN LowerChar(text[i + k - 1]) = LowerChar(prefix[k])
          ELSE text[i + k - 1] = prefix[k]

\* the end of the longest run of characters of a class that starts at text[j]
\* (j - 1 when text[j] is not of the class); repo: [a-zA-Z0-9_.-], else [^/]
RECURSIVE RunEnd(_, _, _)
RunEnd(text, j, repo) ==
    IF j <= Len(text) /\ (IF repo THEN IsRepoChar(text[j]) ELSE IsNotSlash(text[j]))
    THEN RunEnd(text, j + 1, repo)
    ELSE j - 1

\* the end of the match of  prefix owner+ / repo+  at text[i], 0 when there is
\* no match there
MatchEnd(text, i, prefix, ignorecase, repo) ==
    IF ~StartsWithAt(text, i, prefix, ignorecase) THEN 0
    ELSE LET owner_start == i + Len(prefix)
             owner_end == RunEnd(text, owner_start, repo)
             repo_end == RunEnd(text, owner_end + 2, repo)
         IN  IF /\ owner_end >= owner_start
                /\ owner_end + 1 <= Len(text)
                /\ text[owner_end + 1] = "/"
                /\ repo_end >= owner_end + 2
             THEN repo_end
             ELSE 0

\* the places of text where one of the prefixes starts a match
MatchStarts(text, prefixes, ignorecase, repo) ==
    {i \in DOMAIN text :
        \E p \in prefixes : MatchEnd(text, i, p, ignorecase, repo) > 0}

\* re.findall(pattern, text, re.IGNORECASE)[0]: the leftmost match, <<>> when
\* the pattern matches nowhere
FirstMatch(text, prefixes) ==
    LET starts == MatchStarts(text, prefixes, TRUE, TRUE)
    IN  IF starts = {} THEN <<>>
        ELSE LET i == CHOOSE s \in starts : \A t \in starts : s <= t
                 p == CHOOSE q \in prefixes : MatchEnd(text, i, q, TRUE, TRUE) > 0
             IN  SubSeq(text, i, MatchEnd(text, i, p, TRUE, TRUE))

\* self._extract_github_url(text): the match of the first pattern that matches,
\* NoUrl for None
extract_github_url(text) ==
    LET schemed == FirstMatch(text, {STR_scheme_http \o STR_github_com,
                                     STR_scheme_https \o STR_github_com})
        bare == FirstMatch(text, {STR_github_com})
        url == IF schemed # <<>> THEN schemed ELSE bare
    IN  IF url = <<>> THEN NoUrl
        ELSE IF StartsWithAt(url, 1, STR_http, FALSE) THEN url
        ELSE STR_scheme_https \o url

\* str.replace(old, "")
RECURSIVE Remove(_, _)
Remove(s, old) ==
    IF s = <<>> THEN <<>>
    ELSE IF StartsWithAt(s, 1, old, FALSE)
    THEN Remove(SubSeq(s, Len(old) + 1, Len(s)), old)
    ELSE <<Head(s)>> \o Remove(Tail(s), old)

\* re.search(r"github\.com/([^/]+)/([^/]+)", github_url).groups(), <<>> when
\* there is no match
RepoOf(github_url) ==
    LET starts == MatchStarts(github_url, {STR_github_com}, FALSE, FALSE)
    IN  IF starts = {} THEN <<>>
        ELSE LET i == CHOOSE s \in starts : \A t \in starts : s <= t
                 owner_start == i + Len(STR_github_com)
                 owner_end == RunEnd(github_url, owner_start, FALSE)
                 repo_end == RunEnd(github_url, owner_end + 2, FALSE)
             IN  <<SubSeq(github_url, owner_start, owner_end),
                   SubSeq(github_url, owner_end + 2, repo_end)>>

\* self._get_repo_stars(github_url): the stars and the repositories asked for.
\* gh is the API's response: status 0 for a request that raises, stars None
\* for a body without a stargazers_count key
get_repo_stars(github_url, gh) ==
    LET match == RepoOf(github_url)
    IN  IF match = <<>> THEN [stars |-> 0, requests |-> <<>>]
        ELSE [stars |-> IF gh.status = 200 THEN OrZero(gh.stars) ELSE 0,
              requests |-> <<[owner |-> match[1],
                              repo |-> Remove(match[2], <<".", "g", "i", "t">>)]>>]

\* "https://github.com/o/r", the repository a trending-feed item carries
UrlOwn == STR_scheme_https \o STR_github_com \o <<"o", "/", "r">>

\* truth value of paper.github_url
TruthyUrl(url) == url # NoUrl /\ url # <<>>

\* the element of a one-element set; Only({f(x) : x \in {e}}) is f(e) with e
\* evaluated once
Only(S) == CHOOSE x \in S : TRUE

\* lines 155-159: paper.github_url after the search in abstract and title
find_github_url(paper) ==
    IF TruthyUrl(paper.github_url) THEN paper.github_url
    ELSE Only({IF extract_github_url(text) # NoUrl THEN extract_github_url(text)
               ELSE paper.github_url :
                   text \in {paper.abstract \o <<" ">> \o paper.title}})

\* lines 161-171: the stars of the repository at github_url, if there is one
set_github_stars(paper, github_url, gh) ==
    IF TruthyUrl(github_url)
    THEN [paper |-> [paper EXCEPT !.github_url = github_url,
                                  !.github_stars = get_repo_stars(github_url, gh).stars],
          requests |-> get_repo_stars(github_url, gh).requests]
    ELSE [paper |-> [paper EXCEPT !.github_stars = 0], requests |-> <<>>]

GitHubEnricher_enrich_paper_replace(paper, gh) ==
    \* mutant: the URL extracted from the text replaces the paper's own
    Only({set_github_stars(paper, github_url, gh) :
              github_url \in {find_github_url([paper EXCEPT !.github_url = NoUrl])}})

\* GitHubEnricher.enrich_paper(paper): the paper as returned and the
\* repositories asked for
GitHubEnricher_enrich_paper(paper, gh) ==
    Only({set_github_stars(paper, github_url, gh) :
              github_url \in {find_github_url(paper)}})

\* enrich_papers(papers, s2_api_key, github_token): every paper goes through
\* the SemanticScholar enricher, then the GitHub enricher; apis[i] is how the
\* two services answer for the i-th paper
enrich_papers(ps, apis) ==
    [i \in DOMAIN ps |->
        GitHubEnricher_enrich_paper(
            SemanticScholarEnricher_enrich_paper(ps[i], apis[i].s2).paper,
            apis[i].gh).paper]

----------------------------------------------------------------------------
(* lambda_handler.py *)

NoResult ==
    [statusCode |-> 0, status |-> "", message |-> <<>>, error_type |-> "",
     papers_count |-> None, papers_harvested |-> None, papers_published |-> None,
     publish_result |-> <<>>]

\* the response of the `except Exception` clause
ErrorResult(text, type) ==
    [NoResult EXCEPT !.statusCode = 500, !.status = "error",
                     !.message = <<"Pipeline execution failed: ">> \o text,
                     !.error_type = type]

\* the response of the zero-papers short circuit
NoPapersResult ==
    [NoResult EXCEPT !.statusCode = 200, !.status = "completed",
                     !.message = <<"No papers found", " to process">>,
                     !.papers_count = 0]

SuccessResult(harvested, published, publish_result) ==
    [NoResult EXCEPT !.statusCode = 200, !.status = "completed",
                     !.message = <<"AI Weekly pipeline executed successfully">>,
                     !.papers_harvested = harvested,
                     !.papers_published = published,
                     !.publish_result = publish_result]

Stages == <<"harvest", "enrich", "rank", "summarize", "publish">>

ExceptPropagate(text, type) ==
    \* mutant: the exception leaves lambda_handler; no response is returned
    /\ result' = NoResult
    /\ pc' = "crashed"

ExceptContinue(text, type) ==
    \* mutant: the error is recorded but the run goes on with the next step
    /\ result' = ErrorResult(text, type)
    /\ pc' = CASE pc = "start" -> "harvest" [] pc = "harvest" -> "enrich"
              [] pc = "enrich" -> "rank" [] pc = "rank" -> "summarize"
              [] pc = "summarize" -> "publish" [] OTHER -> "done"

\* an exception reaches lambda_handler's except clause: the run ends
Except(text, type) ==
    /\ result' = ErrorResult(text, type)
    /\ pc' = "done"

\* The environments tried.  TOP_K_PAPERS ranges over the decimal texts of
\* -1..MaxTopK, plus unset (the default "10") and a text int() rejects.
EnvValues ==
    [REPORT_BUCKET : {Unset, <<>>, <<"bucket">>},
     LLM_BACKEND : {Unset, STR_OpenAI, STR_anthropic, STR_gemini},
     LLM_MODEL : {Unset},
     DAYS_LOOKBACK : {Unset, <<"x">>},
     TOP_K_PAPERS : {IntToStr(k) : k \in -1..MaxTopK} \cup {Unset, <<"x">>},
     SES_SENDER : {Unset, <<"digest@example.com">>},
     SUBSCRIBERS : {Unset, <<"a", ",", " ", "b">>}]

\* What the feeds hand to one run: n distinct papers, n = 0..MaxHarvest
\* (the abstracts name a repository; a trending-feed item carries its own)
Harvested(n) ==
    [i \in 1..n |->
        [Paper(i, <<"P">> \o NatToStr(i),
               IF i % 2 = 1 THEN "arxiv" ELSE "paperswithcode")
            EXCEPT !.abstract = STR_github_com \o <<"a", "/", "b">>,
                   !.github_url = IF i % 2 = 1 THEN NoUrl ELSE UrlOwn]]

\* What the scholarly-graph and code-hosting lookups can report for a paper
EnrichCites == {0, 2}

EnrichStars == {0, 3}

\* How the two services answer for a paper that is to get the given counts:
\* cites = 0, no record anywhere; otherwise a record with that count under the
\* paper's identifier and title, and its embedding. stars = 0, an unknown
\* repository; otherwise a repository with that many stars
EnrichApi(paper, cites, stars) ==
    LET record == S2Record(<<"i", "d">>, paper.title, cites)
    IN  [s2 |-> IF cites = 0
                THEN [arxiv |-> Response(404, <<>>), search |-> Response(200, <<>>),
                      embedding |-> Response(404, <<>>)]
                ELSE [arxiv |-> Response(200, <<record>>),
                      search |-> Response(200, <<record>>),
                      embedding |-> Response(200, <<1, 2, 3>>)],
         gh |-> IF stars = 0 THEN [status |-> 404, stars |-> None]
                ELSE [status |-> 200, stars |-> stars]]

\* Every stage call below has an outcome in which an Exception escapes the
\* callee (a None title in harvest_papers, a None abstract in enrich_papers, a
\* ClientError re-raised by _upload_file, ...): the try block of lambda_handler
\* treats all five calls alike, so each of them gets that outcome.

\* lines 48-51: load_config(); its ValueError is caught like any other
LoadConfig ==
    /\ pc = "start"
    /\ \E keys \in KeySources :
          LET r == load_config(env, keys)
          IN  IF r.ok
              THEN /\ config' = r.config
                   /\ pc' = "harvest"
                   /\ UNCHANGED result
              ELSE /\ Except(r.error, r.error_type)
                   /\ UNCHANGED config
    /\ UNCHANGED <<env, papers, top_papers, intro, calls, returned,
                   s3_puts, ses_calls, call, stored, ret>>

HarvestNoShortCircuit ==
    \* mutant: an empty harvest goes on to enrichment
    /\ pc = "harvest"
    /\ calls' = Append(calls, "harvest")
    /\ \/ /\ Except(<<"harvest_papers raised">>, "Exception")
          /\ UNCHANGED <<papers, returned>>
       \/ \E n \in 0..MaxHarvest :
             /\ papers' = Harvested(n)
             /\ returned' = Append(returned, "harvest")
             /\ pc' = "enrich"
             /\ UNCHANGED result
    /\ UNCHANGED <<env, config, top_papers, intro, s3_puts, ses_calls, call, stored, ret>>

\* lines 72-94: Step 1, and the zero-papers short circuit
Harvest ==
    /\ pc = "harvest"
    /\ calls' = Append(calls, "harvest")
    /\ \/ /\ Except(<<"harvest_papers raised">>, "Exception")
          /\ UNCHANGED <<papers, returned>>
       \/ \E n \in 0..MaxHarvest :
             /\ papers' = Harvested(n)
             /\ returned' = Append(returned, "harvest")
             /\ IF papers' = <<>>
                THEN /\ result' = NoPapersResult
                     /\ pc' = "done"
                ELSE /\ pc' = "enrich"
                     /\ UNCHANGED result
    /\ UNCHANGED <<env, config, top_papers, intro, s3_puts, ses_calls, call, stored, ret>>

\* lines 96-102: Step 2
Enrich ==
    /\ pc = "enrich"
    /\ calls' = Append(calls, "enrich")
    /\ \/ /\ Except(<<"enrich_papers raised">>, "Exception")
          /\ UNCHANGED <<papers, returned>>
       \/ \E found \in [DOMAIN papers -> EnrichCites \X EnrichStars] :
             /\ papers' = enrich_papers(papers,
                              [i \in DOMAIN papers |->
                                  EnrichApi(papers[i], found[i][1], found[i][2])])
             /\ returned' = Append(returned, "enrich")
             /\ pc' = "rank"
             /\ UNCHANGED result
    /\ UNCHANGED <<env, config, top_papers, intro, s3_puts, ses_calls, call, stored, ret>>

\* lines 104-112: Step 3
Rank ==
    /\ pc = "rank"
    /\ calls' = Append(calls, "rank")
    /\ \/ /\ Except(<<"rank_papers raised">>, "Exception")
          /\ UNCHANGED <<papers, top_papers, returned>>
       \/ LET r == rank_papers(papers, config.top_k_papers, config.citation_weight,
                               config.github_weight, config.social_weight)
          IN  /\ papers' = r.papers
              /\ top_papers' = r.top
              /\ returned' = Append(returned, "rank")
              /\ pc' = "summarize"
              /\ UNCHANGED result
    /\ UNCHANGED <<env, config, intro, s3_puts, ses_calls, call, stored, ret>>

SelectApiKeyLenient(cfg) ==
    \* mutant: an unknown backend name falls back to the OpenAI key
    IF Lower(cfg.llm_backend) = STR_anthropic
    THEN [ok |-> TRUE, api_key |-> cfg.anthropic_api_key]
    ELSE [ok |-> TRUE, api_key |-> cfg.openai_api_key]

SelectApiKeyEither(cfg) ==
    \* mutant: a backend whose key is missing borrows the other provider's key
    LET own == IF Lower(cfg.llm_backend) = STR_openai
               THEN cfg.openai_api_key ELSE cfg.anthropic_api_key
        other == IF Lower(cfg.llm_backend) = STR_openai
                 THEN cfg.anthropic_api_key ELSE cfg.openai_api_key
    IN  IF Lower(cfg.llm_backend) \notin {STR_openai, STR_anthropic}
        THEN [ok |-> FALSE, api_key |-> Unset]
        ELSE [ok |-> TRUE, api_key |-> IF Truthy(own) THEN own ELSE other]

\* lines 117-123: the API key of the selected backend; [ok, api_key]
SelectApiKey(cfg) ==
    IF Lower(cfg.llm_backend) = STR_openai
    THEN [ok |-> TRUE, api_key |-> cfg.openai_api_key]
    ELSE IF Lower(cfg.llm_backend) = STR_anthropic
    THEN [ok |-> TRUE, api_key |-> cfg.anthropic_api_key]
    ELSE [ok |-> FALSE, api_key |-> Unset]

\* lines 114-130: Step 4
Summarize ==
    /\ pc = "summarize"
    /\ LET sel == SelectApiKey(config)
       IN  IF ~sel.ok
           THEN /\ Except(<<"Unsupported LLM backend", ": ">> \o config.llm_backend,
                          "ValueError")
                /\ UNCHANGED <<papers, intro, calls, returned, call>>
           ELSE /\ calls' = Append(calls, "summarize")
                \* lines 125-130: the arguments of the call
                /\ call' = [fn |-> "summarize_papers",
                            papers |-> [k \in DOMAIN top_papers |-> papers[top_papers[k]]],
                            backend |-> config.llm_backend,
                            api_key |-> sel.api_key,
                            model |-> config.llm_model]
                /\ \/ /\ Except(<<"summarize_papers raised">>, "Exception")
                      /\ UNCHANGED <<papers, intro, returned>>
                   \/ \E llm \in LLMOutcomes :
                         LET r == summarize_papers(papers, top_papers,
                                                   config.llm_backend, sel.api_key, llm)
                         IN  /\ papers' = r.papers
                             /\ intro' = r.intro
                             /\ returned' = Append(returned, "summarize")
                             /\ pc' = "publish"
                             /\ UNCHANGED result
    /\ UNCHANGED <<env, config, top_papers, s3_puts, ses_calls, stored, ret>>

\* lines 132-171: Step 5 and the success response
Publish ==
    /\ pc = "publish"
    /\ calls' = Append(calls, "publish")
    /\ \E date \in Dates, s3 \in S3Outcomes, ses \in SESOutcomes :
          LET r == publish_report(papers, top_papers, intro, config.report_bucket,
                                  config.ses_sender, config.subscribers, date, s3, ses)
          IN  /\ s3_puts' = s3_puts \o r.puts
              /\ stored' = S3Store(stored, r.puts)
              /\ ses_calls' = ses_calls \o r.emails
              /\ IF r.ok
                 THEN /\ returned' = Append(returned, "publish")
                      /\ result' = SuccessResult(Len(papers), Len(top_papers), r.result)
                      /\ pc' = "done"
                 ELSE /\ Except(r.error, "Exception")
                      /\ UNCHANGED returned
    /\ UNCHANGED <<env, config, papers, top_papers, intro, call, ret>>

\* no direct call has returned
NoReturn == [fn |-> "", value |-> FALSE]

NoCall ==
    [fn |-> "", index |-> 0, top_k |-> 0,
     citation_weight |-> 0, github_weight |-> 0, social_weight |-> 0]

Init ==
    /\ env \in EnvValues
    /\ config = NoConfig
    /\ pc = "start"
    /\ papers = <<>>
    /\ top_papers = <<>>
    /\ intro = NoIntro
    /\ calls = <<>>
    /\ returned = <<>>
    /\ result = NoResult
    /\ s3_puts = <<>>
    /\ ses_calls = <<>>
    /\ call = NoCall
    /\ stored = {}
    /\ ret = NoReturn

\* lambda_handler, one action per step of its body
Next == LoadConfig \/ Harvest \/ Enrich \/ Rank \/ Summarize \/ Publish

Spec == Init /\ [][Next]_vars

----------------------------------------------------------------------------
(* rank.py called directly, as tests/test_rank.py does *)

UnitCites == {None, 0, 2}

UnitStars == {None, 0, 1, 3}

\* <<citation_weight, github_weight, social_weight>>, in tenths
UnitWeights == {<<5, 3, 2>>, <<5, 3, 0>>, <<7, 2, 1>>, <<0, 3, 9>>}

UnitTopK == -1..MaxTopK

UnitPapers(n) ==
    {[i \in 1..n |->
         [Paper(i, <<"P">> \o NatToStr(i), "arxiv")
             EXCEPT !.citation_count = f[i][1], !.github_stars = f[i][2]]] :
     f \in [1..n -> UnitCites \X UnitStars]}

\* normalize_github_stars(papers)
UnitNormalize ==
    /\ pc = "unit"
    /\ papers' = normalize_github_stars(papers)
    /\ call' = [NoCall EXCEPT !.fn = "normalize_github_stars"]
    /\ pc' = "normalized"
    /\ UNCHANGED <<env, config, top_papers, intro, calls, returned, result,
                   s3_puts, ses_calls, stored, ret>>

\* paper.score = calculate_paper_score(papers[i], weights), with or without a
\* normalized value on the paper
UnitScore ==
    /\ pc \in {"unit", "normalized"}
    /\ \E i \in DOMAIN papers, w \in UnitWeights :
          /\ papers' = [papers EXCEPT ![i].score =
                           calculate_paper_score(papers[i], w[1], w[2], w[3])]
          /\ call' = [NoCall EXCEPT !.fn = "calculate_paper_score", !.index = i,
                                    !.citation_weight = w[1],
                                    !.github_weight = w[2],
                                    !.social_weight = w[3]]
    /\ pc' = "scored"
    /\ UNCHANGED <<env, config, top_papers, intro, calls, returned, result,
                   s3_puts, ses_calls, stored, ret>>

\* rank_papers(papers, top_k, weights)
UnitRank ==
    /\ pc = "unit"
    /\ \E k \in UnitTopK, w \in UnitWeights :
          LET r == rank_papers(papers, k, w[1], w[2], w[3])
          IN  /\ papers' = r.papers
              /\ top_papers' = r.top
              /\ call' = [NoCall EXCEPT !.fn = "rank_papers", !.top_k = k,
                                        !.citation_weight = w[1],
                                        !.github_weight = w[2],
                                        !.social_weight = w[3]]
    /\ pc' = "ranked"
    /\ UNCHANGED <<env, config, intro, calls, returned, result, s3_puts, ses_calls, stored, ret>>

InitRank ==
    /\ env \in {e \in EnvValues : \A n \in DOMAIN e : e[n] = Unset}
    /\ config = NoConfig
    /\ pc = "unit"
    /\ papers \in UNION {UnitPapers(n) : n \in 0..MaxPapers}
    /\ top_papers = <<>>
    /\ intro = NoIntro
    /\ calls = <<>>
    /\ returned = <<>>
    /\ result = NoResult
    /\ s3_puts = <<>>
    /\ ses_calls = <<>>
    /\ call = NoCall
    /\ stored = {}
    /\ ret = NoReturn

NextRank == UnitNormalize \/ UnitScore \/ UnitRank

SpecRank == InitRank /\ [][NextRank]_vars

----------------------------------------------------------------------------
(* Properties of lambda_handler (specification Spec) *)

Contains(message, fragment) == \E i \in DOMAIN message : message[i] = fragment

IsPrefix(s, t) == Len(s) <= Len(t) /\ s = SubSeq(t, 1, Len(s))

Invoked(stage) == \E i \in DOMAIN calls : calls[i] = stage

Returned(stage) == \E i \in DOMAIN returned : returned[i] = stage

Done == pc = "done"

Failure ==
    /\ result.statusCode = 500
    /\ result.status = "error"
    /\ Len(result.message) > 1
    /\ Head(result.message) = "Pipeline execution failed: "
    /\ result.publish_result = <<>>

\* the backend name the run is configured with, and whether it is supported
ConfiguredBackend == EnvGet(env, "LLM_BACKEND", STR_openai)

Unsupported == Lower(ConfiguredBackend) \notin {STR_openai, STR_anthropic}

\* C1: the stages are invoked in the order harvest, enrich, rank, summarize,
\* publish, each at most once; a stage is invoked only after every earlier
\* stage has returned normally; a response that carries publish_result is
\* returned only after publish_report has returned.
C1_StageOrder ==
    /\ IsPrefix(calls, Stages)
    /\ IsPrefix(returned, calls)
    /\ Len(calls) <= Len(returned) + 1
    /\ result.publish_result # <<>> => Returned("publish") /\ result.statusCode = 200

C1_Witness ==
    /\ Done
    /\ calls = Stages
    /\ returned = Stages
    /\ result.statusCode = 200
    /\ result.publish_result # <<>>

\* C2: when the harvester returns zero papers the run ends at once with
\* statusCode 200, status 'completed', papers_count 0 and a message that
\* contains 'No papers found'; enrich, rank, summarize and publish are not
\* invoked.
C2_NoPapers ==
    (Returned("harvest") /\ papers = <<>>) =>
        /\ Done
        /\ result.statusCode = 200
        /\ result.status = "completed"
        /\ result.papers_count = 0
        /\ Contains(result.message, "No papers found")
        /\ calls = <<"harvest">>

C2_Witness ==
    /\ Done
    /\ returned = <<"harvest">>
    /\ papers = <<>>
    /\ result.papers_count = 0

\* the exception texts a failing stage hands to the except clause
StageErrorTexts(stage) ==
    CASE stage = "harvest" -> {"harvest_papers raised"}
      [] stage = "enrich" -> {"enrich_papers raised"}
      [] stage = "rank" -> {"rank_papers raised"}
      [] stage = "summarize" -> {"summarize_papers raised"}
      [] stage = "publish" ->
            {"unsupported format string passed to NoneType.__format__",
             "An error occurred calling the PutObject operation",
             "send_email failed"}

\* C3: no exception leaves lambda_handler.  Until a response is returned the
\* handler can take its next step; every run that ends has a response whose
\* statusCode is 200 or 500; when load_config or a stage raised, the response
\* is 500 / 'error' and its message carries the exception text.
C3_NeverPropagates ==
    /\ pc \in {"start", "harvest", "enrich", "rank", "summarize", "publish", "done"}
    /\ ~Done => result = NoResult /\ ENABLED Next
    /\ Done => result.statusCode \in {200, 500}
    /\ (Done /\ result.statusCode = 200) =>
          result.status = "completed" /\ returned = calls
    /\ (Done /\ config = NoConfig) => Failure /\ result.error_type = "ValueError"
    /\ (Done /\ Len(calls) > Len(returned)) =>
          /\ Failure
          /\ result.message[2] \in StageErrorTexts(calls[Len(calls)])

C3_Witness ==
    /\ Done
    /\ calls = <<"harvest">>
    /\ returned = <<>>
    /\ result.statusCode = 500
    /\ result.message = <<"Pipeline execution failed: ", "harvest_papers raised">>

\* C4: when at least one paper was harvested, enriched and ranked and the
\* backend name is neither 'openai' nor 'anthropic', the run ends with
\* statusCode 500, status 'error' and a message that contains 'Unsupported LLM
\* backend'; summarize_papers and publish_report are not invoked.
C4_UnsupportedBackend ==
    (Unsupported /\ Returned("rank")) =>
        /\ Len(papers) >= 1
        /\ ~Invoked("summarize")
        /\ ~Invoked("publish")
        /\ pc \in {"summarize", "done"}
        /\ Done => /\ Failure
                   /\ Contains(result.message, "Unsupported LLM backend")

C4_Witness ==
    /\ Done
    /\ config.llm_backend = STR_gemini
    /\ returned = <<"harvest", "enrich", "rank">>
    /\ Len(papers) >= 1
    /\ result.statusCode = 500

\* C5 (as stated): every run whose backend name is unsupported ends with a
\* failure result, whatever the harvester returns (zero papers included), and
\* performs no storage write and no email.
C5_Original ==
    (Done /\ Unsupported) =>
        /\ result.statusCode = 500
        /\ result.status = "error"
        /\ s3_puts = <<>>
        /\ ses_calls = <<>>

\* C5 (amended): a run whose backend name is unsupported performs no storage
\* write and no email, and ends with a failure result unless the harvester
\* returned zero papers; with zero papers it ends with the 'no papers' success
\* result, because the backend name is only looked at after ranking.
C5_UnsupportedIsFatalAfterRanking ==
    Unsupported =>
        /\ s3_puts = <<>>
        /\ ses_calls = <<>>
        /\ ~Invoked("summarize")
        /\ ~Invoked("publish")
        /\ Done => IF Returned("harvest") /\ papers = <<>>
                   THEN result = NoPapersResult
                   ELSE Failure

C5_Witness ==
    /\ Done
    /\ Unsupported
    /\ Returned("harvest")
    /\ papers = <<>>
    /\ result.statusCode = 200

\* C6: when REPORT_BUCKET is unset or empty, load_config raises ValueError, the
\* run ends with a failure result, and no stage is invoked.
C6_MissingBucket ==
    ~Truthy(EnvGet(env, "REPORT_BUCKET", <<>>)) =>
        /\ calls = <<>>
        /\ config = NoConfig
        /\ pc \in {"start", "done"}
        /\ Done => /\ Failure
                   /\ result.error_type = "ValueError"
                   /\ Contains(result.message,
                               "REPORT_BUCKET environment variable must be set")

C6_Witness ==
    /\ Done
    /\ env["REPORT_BUCKET"] = <<>>
    /\ result.statusCode = 500
    /\ calls = <<>>

\* C7 (as stated): for every top_k the configuration can supply, rank_papers
\* returns at most top_k items (no item when top_k is negative, a count being
\* at least 0) and returns all n papers when top_k >= n.
C7_AtMostTopK ==
    Returned("rank") =>
        /\ Len(top_papers) <= (IF config.top_k_papers < 0 THEN 0
                               ELSE config.top_k_papers)
        /\ config.top_k_papers >= Len(papers) => Len(top_papers) = Len(papers)

----------------------------------------------------------------------------
(* Properties of rank.py (specification SpecRank) *)

InTop(i) == \E k \in DOMAIN top_papers : top_papers[k] = i

Stars(i) == OrZero(papers[i].github_stars)

AllStars == {Stars(i) : i \in DOMAIN papers}

MaxOf(S) == CHOOSE x \in S : \A y \in S : y <= x

MinOf(S) == CHOOSE x \in S : \A y \in S : y >= x

\* C8: the list rank_papers returns is a prefix of the stable descending sort
\* of its input by score: scores never increase along the output, papers with
\* equal scores keep their input order, and a paper left out has neither a
\* greater score than a paper in the output nor an equal score and an earlier
\* input position.
C8_PrefixOfStableSort ==
    pc = "ranked" =>
        /\ \A k \in DOMAIN top_papers : top_papers[k] \in DOMAIN papers
        /\ \A a, b \in DOMAIN top_papers :
              a < b =>
                 /\ top_papers[a] # top_papers[b]
                 /\ ~FracGT(papers[top_papers[b]].score, papers[top_papers[a]].score)
                 /\ FracEQ(papers[top_papers[a]].score, papers[top_papers[b]].score)
                       => top_papers[a] < top_papers[b]
        /\ \A j \in DOMAIN papers, k \in DOMAIN top_papers :
              ~InTop(j) =>
                 /\ ~FracGT(papers[j].score, papers[top_papers[k]].score)
                 /\ FracEQ(papers[j].score, papers[top_papers[k]].score)
                       => top_papers[k] < j

C8_Witness ==
    /\ pc = "ranked"
    /\ Len(papers) = 3
    /\ Len(top_papers) = 2
    /\ top_papers[1] = 2
    /\ FracEQ(papers[1].score, papers[3].score)
    /\ FracGT(papers[2].score, papers[1].score)

\* C9: for a non-empty list, normalize_github_stars (a missing star count
\* counting as 0) gives every paper 0 when all star counts are equal, and
\* (stars - min) / (max - min) otherwise: a value in [0,1], 1 for the maximum
\* and 0 for the minimum.  rank_papers normalizes over the whole list, the
\* papers it then truncates away included.
C9_MinMaxNormalization ==
    (pc \in {"normalized", "ranked"} /\ papers # <<>>) =>
        LET mx == MaxOf(AllStars)
            mn == MinOf(AllStars)
        IN  \A i \in DOMAIN papers :
               LET v == papers[i].normalized_stars
               IN  /\ v.den > 0
                   /\ 0 <= v.num /\ v.num <= v.den
                   /\ IF mx = mn THEN v.num = 0
                      ELSE /\ v.num * (mx - mn) = (Stars(i) - mn) * v.den
                           /\ Stars(i) = mx => v.num = v.den
                           /\ Stars(i) = mn => v.num = 0

C9_Witness ==
    /\ pc = "ranked"
    /\ Len(papers) = 3
    /\ Len(top_papers) = 1
    /\ \E i \in DOMAIN papers : papers[i].github_stars = None
    /\ \E i \in DOMAIN papers :
          /\ ~InTop(i)
          /\ 0 < papers[i].normalized_stars.num
          /\ papers[i].normalized_stars.num < papers[i].normalized_stars.den

\* C10: calculate_paper_score returns citation_weight * ln(citations + 1) +
\* github_weight * normalized_stars, a missing citation count and a missing
\* normalized value counting as 0: the social weight has no effect, and a
\* citation count of 0 contributes nothing.
ScoreFormula(paper, citation_weight, github_weight) ==
    LET c == IF paper.citation_count = None THEN 0 ELSE paper.citation_count
        g == IF paper.normalized_stars.den = 0 THEN Frac(0, 1)
             ELSE paper.normalized_stars
    IN  Frac(citation_weight * LnTable[c + 1] * g.den + github_weight * LogScale * g.num,
             g.den)

C10_ScoreFormula ==
    /\ pc = "scored" =>
          LET p == papers[call.index]
          IN  /\ p.score.den > 0
              /\ FracEQ(p.score,
                        ScoreFormula(p, call.citation_weight, call.github_weight))
              /\ OrZero(p.citation_count) = 0 =>
                    FracEQ(p.score, ScoreFormula([p EXCEPT !.citation_count = None],
                                                 0, call.github_weight))
    /\ pc = "ranked" =>
          \A i \in DOMAIN papers :
             /\ papers[i].score.den > 0
             /\ FracEQ(papers[i].score,
                       ScoreFormula(papers[i], call.citation_weight,
                                    call.github_weight))

C10_Witness ==
    /\ pc = "scored"
    /\ call.social_weight > 0
    /\ papers[call.index].citation_count = None
    /\ papers[call.index].normalized_stars.den = 0
    /\ \E i \in DOMAIN papers : papers[i].citation_count = 2

----------------------------------------------------------------------------
(* _titles_similar called directly, as tests/test_enrich.py does *)

\* the i-th word of the titles tried; capital: with its first letter in capitals
TitleWord(i, capital) == (IF capital THEN <<"T">> ELSE <<"t">>) \o NatToStr(i)

RECURSIVE JoinWords(_, _)
JoinWords(words, sep) ==
    IF words = <<>> THEN <<>>
    ELSE IF Len(words) = 1 THEN Head(words)
    ELSE Head(words) \o sep \o JoinWords(Tail(words), sep)

\* how a title is written: as is, capitalised, with punctuation marks, with
\* runs of whitespace around and between the words, with its first word repeated
TitleStyles == {"plain", "capital", "punctuated", "spaced", "repeated"}

\* the title made of the words numbered first..last, then the words numbered in
\* extra, written in the given style
TitleOf(first, last, extra, style) ==
    LET words == [i \in 1..(last - first + 1) |->
                      TitleWord(first + i - 1, style = "capital")]
                 \o [i \in 1..Len(extra) |-> TitleWord(extra[i], style = "capital")]
    IN  CASE style = "punctuated" ->
                 IF words = <<>> THEN <<"?">>
                 ELSE Head(words) \o <<":">> \o <<" ">>
                          \o JoinWords(Tail(words), <<" ">>) \o <<"!">>
          [] style = "spaced" -> <<" ">> \o JoinWords(words, <<" ", "\t">>) \o <<"\n">>
          [] style = "repeated" ->
                 IF words = <<>> THEN <<>>
                 ELSE JoinWords(Append(words, Head(words)), <<" ">>)
          [] OTHER -> JoinWords(words, <<" ">>)

\* the titles tried: n words, n words and one more, and titles of other words
UnitTitles ==
    {TitleOf(1, n, <<>>, style) : n \in 0..MaxWords, style \in TitleStyles}
        \cup {TitleOf(1, n, <<MaxWords + 1>>, style) :
                  n \in 0..MaxWords, style \in {"plain", "capital"}}
        \cup {TitleOf(MaxWords + 2, MaxWords + 3, <<>>, "plain")}

\* self._titles_similar(title1, title2)
UnitTitlesSimilar ==
    /\ pc = "unit"
    /\ call.fn = "_titles_similar"
    /\ ret' = [fn |-> "_titles_similar",
               value |-> titles_similar(call.title1, call.title2, DefaultThreshold)]
    /\ pc' = "returned"
    /\ UNCHANGED <<env, config, papers, top_papers, intro, calls, returned, result,
                   s3_puts, ses_calls, call, stored>>

InitTitles ==
    /\ env \in {e \in EnvValues : \A n \in DOMAIN e : e[n] = Unset}
    /\ config = NoConfig
    /\ pc = "unit"
    /\ papers = <<>>
    /\ top_papers = <<>>
    /\ intro = NoIntro
    /\ calls = <<>>
    /\ returned = <<>>
    /\ result = NoResult
    /\ s3_puts = <<>>
    /\ ses_calls = <<>>
    /\ call \in [fn : {"_titles_similar"}, title1 : UnitTitles, title2 : UnitTitles]
    /\ stored = {}
    /\ ret = NoReturn

NextTitles == UnitTitlesSimilar

SpecTitles == InitTitles /\ [][NextTitles]_vars

----------------------------------------------------------------------------
(* Properties of _titles_similar, under SpecTitles *)

TitlesReturned == pc = "returned" /\ ret.fn = "_titles_similar"

\* the word sets are identical except for exactly one extra word in one of them
OneExtraWord(words1, words2) ==
    \/ words1 \subseteq words2 /\ Cardinality(words2 \ words1) = 1
    \/ words2 \subseteq words1 /\ Cardinality(words1 \ words2) = 1

SharedWords(title1, title2) == TitleWords(title1) \cap TitleWords(title2)

\* C11 as stated: titles whose word sets differ by exactly one extra word are
\* similar whatever their number of words, in either order, and titles sharing
\* no word are not.
C11_Original ==
    TitlesReturned =>
        /\ OneExtraWord(TitleWords(call.title1), TitleWords(call.title2))
               => ret.value
        /\ SharedWords(call.title1, call.title2) = {} => ~ret.value

\* C11 (amended): titles whose word sets differ by exactly one extra word are
\* similar exactly when they share at least four words (n/(n+1) >= 0.8), in
\* either argument order; titles sharing no word are never similar.
C11_OneExtraWord ==
    TitlesReturned =>
        /\ OneExtraWord(TitleWords(call.title1), TitleWords(call.title2))
               => (ret.value <=>
                       Cardinality(SharedWords(call.title1, call.title2)) >= 4)
        /\ SharedWords(call.title1, call.title2) = {} => ~ret.value
        /\ ret.value = titles_similar(call.title2, call.title1, DefaultThreshold)

C11_Witness ==
    /\ TitlesReturned
    /\ OneExtraWord(TitleWords(call.title1), TitleWords(call.title2))
    /\ Cardinality(SharedWords(call.title1, call.title2)) = 4
    /\ call.title1 # Lower(call.title1)
    /\ ret.value

----------------------------------------------------------------------------
(* harvest.py *)

\* most entries the three feeds hold together in one harvest_papers call
MaxEntries == 3

\* a published text no date format parses
BadDate == -1

\* an entry without a published date (None, "" or no such key)
NoDate == -2

\* ["cs.AI", "cs.LG"], the configured order
Categories == <<"cs.AI", "cs.LG">>

PapersWithCode == "paperswithcode"

\* str.replace("\n", " ")
ReplaceNewline(s) == [i \in DOMAIN s |-> IF s[i] = "\n" THEN " " ELSE s[i]]

\* A feed's answer is [ok, entries]: ok = FALSE when the request raises (timeout,
\* HTTP error status); an entry is [id, title, published], published being the
\* entry's age in days or BadDate.

BeforeCutoffLate(published, days_back) ==
    \* mutant: the cutoff lies one day further back
    published > days_back + 1

\* published_date < cutoff_date, cutoff_date = now - days_back
BeforeCutoff(published, days_back) == published > days_back

RECURSIVE ArxivPapers(_, _)
\* lines 95-135: the loop over feed.entries
ArxivPapers(entries, days_back) ==
    IF entries = <<>> THEN <<>>
    ELSE LET entry == Head(entries)
             rest == ArxivPapers(Tail(entries), days_back)
         IN  IF BeforeCutoff(entry.published, days_back) THEN rest
             ELSE <<Paper(entry.id, Strip(ReplaceNewline(entry.title)), "arxiv")>>
                      \o rest

\* ArxivHarvester._fetch_category_papers: any exception gives []
fetch_category_papers(response, days_back) ==
    IF ~response.ok THEN <<>>
    ELSE IF \E i \in DOMAIN response.entries :
                \* strptime raises ValueError, entry.published AttributeError
                response.entries[i].published \in {BadDate, NoDate}
    THEN <<>>
    ELSE ArxivPapers(response.entries, days_back)

RECURSIVE ArxivHarvester_harvest(_, _, _)
\* ArxivHarvester.harvest: the categories' papers, in the order of categories
ArxivHarvester_harvest(feeds, categories, days_back) ==
    IF categories = <<>> THEN <<>>
    ELSE fetch_category_papers(feeds[Head(categories)], days_back)
             \o ArxivHarvester_harvest(feeds, Tail(categories), days_back)

RECURSIVE PwcPapers(_, _)
\* lines 172-209: the loop over data["results"]
PwcPapers(entries, days_back) ==
    IF entries = <<>> THEN <<>>
    ELSE LET item == Head(entries)
             rest == PwcPapers(Tail(entries), days_back)
         IN  IF item.published = NoDate THEN rest
             ELSE IF item.published = BadDate THEN rest
             ELSE IF BeforeCutoff(item.published, days_back) THEN rest
             ELSE <<Paper(item.id, item.title, PapersWithCode)>> \o rest

\* PapersWithCodeHarvester.harvest: any exception gives []
PapersWithCodeHarvester_harvest(response, days_back) ==
    IF ~response.ok THEN <<>> ELSE PwcPapers(response.entries, days_back)

title_normalized_words(paper) ==
    \* mutant: runs of whitespace inside the title are collapsed as well
    JoinWords(SplitWhitespace(Lower(paper.title), <<>>), <<" ">>)

\* title_normalized = paper.title.lower().strip()
title_normalized(paper) == Strip(Lower(paper.title))

Deduplicate_last(all_papers, unique_papers, seen_titles) ==
    \* mutant: the last occurrence of a title wins
    LET keep == {i \in DOMAIN all_papers :
                     \A j \in DOMAIN all_papers :
                         j > i => title_normalized(all_papers[j])
                                     # title_normalized(all_papers[i])}
    IN  SelectSeq(all_papers,
                  LAMBDA p : \E i \in keep : all_papers[i] = p)

RECURSIVE Deduplicate(_, _, _)
\* lines 231-239: the loop over all_papers
Deduplicate(all_papers, unique_papers, seen_titles) ==
    IF all_papers = <<>> THEN unique_papers
    ELSE LET paper == Head(all_papers)
         IN  IF title_normalized(paper) \notin seen_titles
             THEN Deduplicate(Tail(all_papers), Append(unique_papers, paper),
                              seen_titles \cup {title_normalized(paper)})
             ELSE Deduplicate(Tail(all_papers), unique_papers, seen_titles)

\* all_papers: the arXiv papers, then the PapersWithCode papers
AllPapers(feeds, categories, days_back) ==
    ArxivHarvester_harvest(feeds, categories, days_back)
        \o PapersWithCodeHarvester_harvest(feeds[PapersWithCode], days_back)

harvest_papers_no_isolation(feeds, categories, days_back) ==
    \* mutant: a failing request propagates out of harvest_papers
    IF \E f \in DOMAIN feeds : ~feeds[f].ok
    THEN [ok |-> FALSE, papers |-> <<>>]
    ELSE [ok |-> TRUE,
          papers |-> Deduplicate(AllPapers(feeds, categories, days_back), <<>>, {})]

\* harvest_papers(categories, days_back): [ok, papers]; ok = FALSE when it raises
harvest_papers(feeds, categories, days_back) ==
    [ok |-> TRUE,
     papers |-> Deduplicate(AllPapers(feeds, categories, days_back), <<>>, {})]

----------------------------------------------------------------------------
(* harvest_papers called directly, as tests/test_harvest.py does *)

FeedNames == {Categories[i] : i \in DOMAIN Categories} \cup {PapersWithCode}

\* "A b", "a b\n", "a  b", "d"
UnitEntryTitles ==
    {<<"A", " ", "b">>, <<"a", " ", "b", "\n">>, <<"a", " ", " ", "b">>, <<"d">>}

\* what a feed can hold: recent entries under each title, and one whose date
\* does not parse
UnitEntries ==
    [title : UnitEntryTitles, published : {1}]
        \cup [title : {<<"d">>}, published : {BadDate}]

\* the answers of the three feeds, from the entries placed in them (an entry's
\* id is its number in call.entries) and the requests that fail
Feeds(entries, down) ==
    [f \in FeedNames |->
        [ok |-> f \notin down,
         entries |->
             LET ids == SelectSeq([i \in DOMAIN entries |-> i],
                                  LAMBDA i : entries[i].feed = f)
             IN  [k \in DOMAIN ids |->
                     [id |-> ids[k], title |-> entries[ids[k]].title,
                      published |-> entries[ids[k]].published]]]]

\* papers = harvest_papers(categories, days_back)
UnitHarvest ==
    /\ pc = "unit"
    /\ call.fn = "harvest_papers"
    /\ LET r == harvest_papers(Feeds(call.entries, call.down), Categories,
                               call.days_back)
       IN  /\ papers' = r.papers
           /\ ret' = [fn |-> "harvest_papers", value |-> r.ok]
    /\ pc' = "returned"
    /\ UNCHANGED <<env, config, top_papers, intro, calls, returned, result,
                   s3_puts, ses_calls, call, stored>>

InitHarvest ==
    /\ env \in {e \in EnvValues : \A n \in DOMAIN e : e[n] = Unset}
    /\ config = NoConfig
    /\ pc = "unit"
    /\ papers = <<>>
    /\ top_papers = <<>>
    /\ intro = NoIntro
    /\ calls = <<>>
    /\ returned = <<>>
    /\ result = NoResult
    /\ s3_puts = <<>>
    /\ ses_calls = <<>>
    /\ \E n \in 0..MaxEntries :
          call \in [fn : {"harvest_papers"},
                    entries : [1..n -> [feed : FeedNames, title : UnitEntryTitles,
                                        published : {1, BadDate}]],
                    down : {{}} \cup {{f} : f \in FeedNames},
                    days_back : {7}]
    /\ \A i \in DOMAIN call.entries :
          [title |-> call.entries[i].title,
           published |-> call.entries[i].published] \in UnitEntries
    /\ stored = {}
    /\ ret = NoReturn

NextHarvest == UnitHarvest

SpecHarvest == InitHarvest /\ [][NextHarvest]_vars

----------------------------------------------------------------------------
(* Properties of harvest_papers, under SpecHarvest *)

HarvestReturned == pc = "returned" /\ ret.fn = "harvest_papers"

\* the papers deduplication starts from, for the feeds of the call
Fetched == AllPapers(Feeds(call.entries, call.down), Categories, call.days_back)

\* a title in lower case, without leading and trailing whitespace
LowerStripped(title) == Strip(Lower(title))

\* a title in lower case, every run of whitespace made one space and none left
\* at either end
WhitespaceNormalized(title) ==
    JoinWords(SplitWhitespace(Lower(title), <<>>), <<" ">>)

\* C12 as stated: no two papers of the result have titles that are equal after
\* lower-casing and normalizing leading, trailing and internal whitespace.
C12_Original ==
    HarvestReturned =>
        \A i, j \in DOMAIN papers :
            i # j => WhitespaceNormalized(papers[i].title)
                         # WhitespaceNormalized(papers[j].title)

\* C12 (amended): of the harvested papers whose titles are equal after
\* lower-casing and removing leading and trailing whitespace exactly one is in
\* the result; titles that differ inside (a run of whitespace between two
\* words) are different titles.
C12_ExactTitle ==
    HarvestReturned =>
        LET fetched == Fetched
        IN  /\ \A i, j \in DOMAIN papers :
                   i # j => LowerStripped(papers[i].title)
                                # LowerStripped(papers[j].title)
            /\ \A i \in DOMAIN fetched :
                   Cardinality({k \in DOMAIN papers :
                                    LowerStripped(papers[k].title)
                                        = LowerStripped(fetched[i].title)}) = 1

C12_Witness ==
    /\ HarvestReturned
    /\ \E i, j \in DOMAIN Fetched :
          /\ i # j
          /\ Fetched[i].title # Fetched[j].title
          /\ LowerStripped(Fetched[i].title) = LowerStripped(Fetched[j].title)
    /\ \E i, j \in DOMAIN papers :
          /\ i # j
          /\ WhitespaceNormalized(papers[i].title)
                 = WhitespaceNormalized(papers[j].title)

\* the place of a feed in the concatenation: the categories in their
\* configured order, then the trending feed
FeedOrder(f) ==
    IF f = PapersWithCode THEN Len(Categories) + 1
    ELSE CHOOSE c \in DOMAIN Categories : Categories[c] = f

\* the place in the harvested papers of the k-th paper of the result
PlaceOf(fetched, k) == CHOOSE i \in DOMAIN fetched : fetched[i].id = papers[k].id

\* C13: the first occurrence wins. The result is made of harvested papers, in
\* the order arXiv categories (as configured) then trending feed; the paper
\* kept for a normalized title is the earliest one with that title; and every
\* harvested paper whose normalized title differs from all earlier ones is kept.
C13_FirstOccurrenceWins ==
    HarvestReturned =>
        LET fetched == Fetched
        IN  /\ \A k \in DOMAIN papers :
                   \E i \in DOMAIN fetched : fetched[i] = papers[k]
            /\ \A k, l \in DOMAIN papers :
                   k < l =>
                       /\ PlaceOf(fetched, k) < PlaceOf(fetched, l)
                       /\ FeedOrder(call.entries[papers[k].id].feed)
                              <= FeedOrder(call.entries[papers[l].id].feed)
                       /\ call.entries[papers[k].id].feed
                              = call.entries[papers[l].id].feed
                              => papers[k].id < papers[l].id
            /\ \A k \in DOMAIN papers : \A j \in 1..(PlaceOf(fetched, k) - 1) :
                   LowerStripped(fetched[j].title) # LowerStripped(papers[k].title)
            /\ \A i \in DOMAIN fetched :
                   (\A j \in 1..(i - 1) :
                        LowerStripped(fetched[j].title)
                            # LowerStripped(fetched[i].title))
                       => \E k \in DOMAIN papers : papers[k] = fetched[i]

C13_Witness ==
    /\ HarvestReturned
    /\ Len(Fetched) = 3
    /\ Len(papers) = 2
    /\ papers[1] = Fetched[1]
    /\ papers[2] = Fetched[2]
    /\ papers[1].source = "arxiv"
    /\ Fetched[3].source = PapersWithCode
    /\ LowerStripped(Fetched[3].title) = LowerStripped(Fetched[1].title)

\* the request of feed f fails, or f is a category whose answer does not parse
FeedFails(f) ==
    \/ f \in call.down
    \/ /\ f # PapersWithCode
       /\ \E i \in DOMAIN call.entries :
             call.entries[i].feed = f /\ call.entries[i].published = BadDate

\* the recent entries of feed f with a date that parses
Delivered(f) ==
    {i \in DOMAIN call.entries :
         /\ call.entries[i].feed = f
         /\ call.entries[i].published # BadDate
         /\ call.entries[i].published <= call.days_back}

\* C20: a fetch or parse failure of one category or of the trending feed gives
\* no paper from that feed and nothing else: harvest_papers returns normally,
\* and every paper the other feeds delivered is in the result under its title
\* (itself, or the earlier paper of the same normalized title).
C20_FailureIsolation ==
    HarvestReturned =>
        /\ ret.value
        /\ \A f \in FeedNames :
               IF FeedFails(f)
               THEN \A k \in DOMAIN papers : call.entries[papers[k].id].feed # f
               ELSE \A i \in Delivered(f) :
                        \E k \in DOMAIN papers :
                            /\ LowerStripped(papers[k].title)
                                   = LowerStripped(call.entries[i].title)
                            /\ papers[k].id <= i \/ call.entries[papers[k].id].feed # f

C20_Witness ==
    /\ HarvestReturned
    /\ ret.value
    /\ \E f \in FeedNames \ {PapersWithCode} :
          /\ f \notin call.down
          /\ FeedFails(f)
          /\ \E i \in DOMAIN call.entries :
                call.entries[i].feed = f /\ call.entries[i].published = 1
    /\ papers # <<>>

----------------------------------------------------------------------------
(* summarize_papers called directly, as tests/test_summarise.py does *)

UnitBackends == {STR_openai, STR_OpenAI, STR_anthropic, STR_gemini}

\* api_key: None, "", a key
UnitApiKeys == {Unset, <<>>, <<"sk-key">>}

\* papers, intro = summarize_papers(top_papers, backend, api_key, model)
UnitSummarize ==
    /\ pc = "unit"
    /\ call.fn = "summarize_papers"
    /\ LET r == summarize_papers(papers, top_papers, call.backend, call.api_key,
                                 call.llm)
       IN  /\ papers' = r.papers
           /\ intro' = r.intro
           /\ ret' = [fn |-> "summarize_papers", value |-> TRUE,
                      client |-> r.client, api_calls |-> r.api_calls]
    /\ pc' = "returned"
    /\ UNCHANGED <<env, config, top_papers, calls, returned, result,
                   s3_puts, ses_calls, call, stored>>

InitSummarize ==
    /\ env \in {e \in EnvValues : \A n \in DOMAIN e : e[n] = Unset}
    /\ config = NoConfig
    /\ pc = "unit"
    /\ \E n \in 0..MaxPapers :
          /\ papers = [i \in 1..n |-> Paper(i, <<"P">> \o NatToStr(i), "arxiv")]
          /\ \E k \in 0..n :
                /\ top_papers = [i \in 1..k |-> i]
                /\ call \in [fn : {"summarize_papers"},
                             papers : {papers},
                             backend : UnitBackends,
                             api_key : UnitApiKeys,
                             llm : {LLMOutcome(init, fails) :
                                        init \in BOOLEAN,
                                        fails \in SUBSET (1..(k + 1))}]
    /\ intro = NoIntro
    /\ calls = <<>>
    /\ returned = <<>>
    /\ result = NoResult
    /\ s3_puts = <<>>
    /\ ses_calls = <<>>
    /\ stored = {}
    /\ ret = NoReturn

NextSummarize == UnitSummarize

SpecSummarize == InitSummarize /\ [][NextSummarize]_vars

----------------------------------------------------------------------------
(* Properties of summarize_papers, under SpecSummarize *)

SummarizeReturned == pc = "returned" /\ ret.fn = "summarize_papers"

\* the call returned the papers it was given, changed in their summary only
SamePapers ==
    /\ Len(papers) = Len(call.papers)
    /\ \A i \in DOMAIN papers :
          [papers[i] EXCEPT !.summary = NoSummary] = call.papers[i]

\* the summaries of the papers passed to the call, in their order
Summaries == [k \in DOMAIN top_papers |-> papers[top_papers[k]].summary]

\* C14: with a missing API key (None or empty) no client is constructed and no
\* completion call is made, whatever the backend name; every paper passed gets
\* the 'disabled' placeholder, the executive summary is the 'disabled'
\* sentence, and the call returns normally with the same papers.
C14_NoApiKey ==
    (SummarizeReturned /\ call.api_key \in {Unset, <<>>}) =>
        /\ ret.value
        /\ ~ret.client
        /\ ret.api_calls = 0
        /\ \A k \in DOMAIN top_papers : Summaries[k] = DisabledSummary
        /\ intro = DisabledIntro
        /\ SamePapers

C14_Witness ==
    /\ SummarizeReturned
    /\ call.api_key = <<>>
    /\ call.backend = STR_gemini
    /\ call.llm.init
    /\ Len(top_papers) = 2
    /\ Summaries = <<DisabledSummary, DisabledSummary>>
    /\ intro = DisabledIntro

\* some completion call of the run fails, or the client cannot be constructed
ApiFailure ==
    \/ ~call.llm.init
    \/ call.llm.fails \cap (1..(Len(top_papers) + 1)) # {}

----------------------------------------------------------------------------
(* publish_report called directly, run after run, as tests/test_publish.py does *)

\* number of publish_report calls made on one bucket
MaxRuns == 2

\* sender_email: None, an address
UnitSenders == {Unset, <<"digest@example.com">>}

\* recipients: None, [], two addresses
UnitRecipients == {NoneList, <<>>, <<<<"a@example.com">>, <<"b@example.com">>>>}

\* the intro passed to a call
UnitIntros == {LLMIntro, DisabledIntro}

\* result = publish_report(top_papers, intro, bucket_name, sender_email,
\*                         recipients, date)
UnitPublish ==
    /\ pc \in {"unit", "returned", "raised"}
    /\ call.fn = "publish_report"
    /\ call.n < MaxRuns
    /\ \E date \in Dates, s3 \in S3Outcomes, ses \in SESOutcomes,
          sender \in UnitSenders, recipients \in UnitRecipients,
          intro_ \in UnitIntros :
          LET r == publish_report(papers, top_papers, intro_, <<"bucket">>, sender,
                                  recipients, date, s3, ses)
          IN  /\ date >= call.date
              \* send_email's outcome is drawn only where send_email is called
              /\ r.emails = <<>> => ses = "ok"
              /\ intro' = intro_
              /\ s3_puts' = r.puts
              /\ ses_calls' = r.emails
              /\ stored' = S3Store(stored, r.puts)
              /\ ret' = [fn |-> "publish_report", value |-> r.ok,
                         result |-> r.result, error |-> r.error]
              /\ pc' = IF r.ok THEN "returned" ELSE "raised"
              /\ call' = [fn |-> "publish_report", n |-> call.n + 1,
                          completed |-> call.completed + (IF r.ok THEN 1 ELSE 0),
                          sender |-> sender, recipients |-> recipients,
                          date |-> date, s3 |-> s3, ses |-> ses]
    /\ UNCHANGED <<env, config, papers, top_papers, calls, returned, result>>

InitPublish ==
    /\ env \in {e \in EnvValues : \A n \in DOMAIN e : e[n] = Unset}
    /\ config = NoConfig
    /\ pc = "unit"
    /\ \E n \in 1..2 :
          LET r == rank_papers([i \in 1..n |->
                                   [Paper(i, <<"P">> \o NatToStr(i), "arxiv")
                                       EXCEPT !.citation_count = i,
                                              !.github_stars = 0]],
                               n, DefaultCitationWeight, DefaultGithubWeight,
                               DefaultSocialWeight)
          IN  /\ papers = r.papers
              /\ top_papers = r.top
    /\ intro = NoIntro
    /\ calls = <<>>
    /\ returned = <<>>
    /\ result = NoResult
    /\ s3_puts = <<>>
    /\ ses_calls = <<>>
    /\ call = [fn |-> "publish_report", n |-> 0, completed |-> 0,
               sender |-> Unset, recipients |-> NoneList,
               date |-> 1, s3 |-> "none", ses |-> "ok"]
    /\ stored = {}
    /\ ret = NoReturn

NextPublish == UnitPublish

SpecPublish == InitPublish /\ [][NextPublish]_vars

----------------------------------------------------------------------------
(* Properties of publish_report, under SpecPublish *)

PublishCalled == pc \in {"returned", "raised"} /\ ret.fn = "publish_report"

PublishReturned == pc = "returned" /\ ret.fn = "publish_report"

\* the objects of the bucket under one directory
StoredUnder(dir) == {o \in stored : o.key.dir = dir}

\* C16: whenever publish_report returns normally, exactly three objects have
\* been written in that call: the report under the 'latest' key, the same
\* report content under the archive key reports/YYYY/MM/ of the date, and the
\* paper snapshot under the history key of the date; the returned record holds
\* the three locations and an email_sent flag.
C16_ThreeObjects ==
    PublishReturned =>
        /\ Len(s3_puts) = 3
        /\ s3_puts[1].key.dir = "latest/"
        /\ s3_puts[1].body.intro = intro
        /\ s3_puts[1].body.papers = [k \in DOMAIN top_papers |-> papers[top_papers[k]]]
        /\ s3_puts[2].key.dir = "reports/"
        /\ s3_puts[2].key.year = Year(call.date)
        /\ s3_puts[2].key.month = Month(call.date)
        /\ s3_puts[2].key.date = call.date
        /\ s3_puts[2].body = s3_puts[1].body
        /\ s3_puts[3].key.dir = "history/"
        /\ s3_puts[3].key.date = call.date
        /\ s3_puts[3].body.papers = [k \in DOMAIN top_papers |-> papers[top_papers[k]]]
        /\ \A k \in 1..3 : s3_puts[k] \in stored
        /\ Len(ret.result) = 1
        /\ ret.result[1].latest_url.key = s3_puts[1].key
        /\ ret.result[1].versioned_url.key = s3_puts[2].key
        /\ ret.result[1].data_url.key = s3_puts[3].key
        /\ ret.result[1].email_sent \in BOOLEAN

C16_Witness ==
    /\ PublishReturned
    /\ call.n = 2
    /\ call.date = 2
    /\ Len(s3_puts) = 3
    /\ s3_puts[2].key.year = 2025
    /\ s3_puts[2].key.month = 1
    /\ ret.result[1].email_sent
    /\ Cardinality(stored) > 3

\* C18: the report is written under one 'latest' key: after any sequence of
\* completed runs, on whatever dates, exactly one 'latest' report object exists
\* and it holds the report of the most recent run.
C18_LatestKey ==
    (PublishReturned /\ call.completed = call.n) =>
        /\ Cardinality(StoredUnder("latest/")) = 1
        /\ \A o \in StoredUnder("latest/") : o = s3_puts[1]

\* the call was given a sender address and a non-empty recipient list
EmailConfigured ==
    /\ call.sender \notin {Unset, <<>>}
    /\ call.recipients \notin {NoneList, <<>>}

\* C19 as stated: publish_report calls the email API exactly once, with the
\* full recipient list, if and only if sender and recipients are configured;
\* otherwise it makes no call, raises no error and reports email_sent = false;
\* email_sent is true only if the call was made and succeeded.
C19_Original ==
    PublishCalled =>
        /\ EmailConfigured <=> Len(ses_calls) = 1
        /\ \A k \in DOMAIN ses_calls : ses_calls[k] = call.recipients
        /\ ~EmailConfigured =>
               /\ ses_calls = <<>>
               /\ pc = "returned"
               /\ ~ret.result[1].email_sent
        /\ (pc = "returned" /\ ret.result[1].email_sent) =>
               Len(ses_calls) = 1 /\ call.ses = "ok"

\* C19 (amended): once the three storage writes have succeeded, publish_report
\* calls the email API exactly once, with the full recipient list, if and only
\* if sender and recipients are configured; unconfigured, it makes no call,
\* returns normally and reports email_sent = false. A call in which a storage
\* write fails raises before any email call. email_sent is true exactly when
\* the email call was made and succeeded.
C19_EmailOnce ==
    PublishCalled =>
        /\ Len(ses_calls) <= 1
        /\ Len(ses_calls) = 1 <=> (EmailConfigured /\ Len(s3_puts) = 3)
        /\ \A k \in DOMAIN ses_calls : ses_calls[k] = call.recipients
        /\ (~EmailConfigured /\ call.s3 = "none") =>
               /\ pc = "returned"
               /\ ~ret.result[1].email_sent
        /\ call.s3 # "none" => pc = "raised" /\ Len(s3_puts) < 3
        /\ pc = "returned" =>
               (ret.result[1].email_sent <=> (Len(ses_calls) = 1 /\ call.ses = "ok"))

C19_Witness ==
    /\ PublishReturned
    /\ EmailConfigured
    /\ Len(call.recipients) = 2
    /\ ses_calls = <<call.recipients>>
    /\ ret.result[1].email_sent

----------------------------------------------------------------------------
(* Properties of lambda_handler's storage writes, under Spec *)

\* the keys written in the run are the first n of latest, archive, history
WrittenPrefix(n) ==
    /\ Len(s3_puts) = n
    /\ \E date \in Dates :
          \A k \in 1..n :
              s3_puts[k].key = <<LatestKey(date), VersionedKey(date),
                                 HistoryKey(date)>>[k]

\* C17 as stated: at the end of every run either all three storage objects
\* have been written or none of them has.
C17_Original == Done => Len(s3_puts) \in {0, 3}

\* C17 (amended): a run that reports success with a publish result has written
\* all three storage objects. A run that reports failure has written none, only
\* the latest report, the latest and archive reports, or all three (the email
\* step raised): the objects written are always a prefix of the order latest,
\* archive, history, and nothing is rolled back.
C17_WrittenPrefix ==
    Done =>
        /\ \E n \in 0..3 : WrittenPrefix(n)
        /\ result.publish_result # <<>> => WrittenPrefix(3)
        /\ Len(s3_puts) \in {1, 2} => Failure
        /\ \A k \in DOMAIN s3_puts : s3_puts[k] \in stored

C17_Witness ==
    /\ Done
    /\ Failure
    /\ WrittenPrefix(1)
    /\ Cardinality(stored) = 1

----------------------------------------------------------------------------
(* SemanticScholarEnricher.enrich_paper on its own *)

\* the title of the paper enriched
UnitPaperTitle == TitleOf(1, 4, <<>>, "plain")

\* the titles of the records found: the same words, one word more (4 of 5
\* shared), one word fewer (3 of 4 shared), other words, and no title
UnitFoundTitles ==
    {TitleOf(1, 4, <<>>, "capital"), TitleOf(1, 4, <<5>>, "plain"),
     TitleOf(1, 3, <<>>, "plain"), TitleOf(6, 7, <<>>, "plain"), <<>>}

UnitPaperIds == {Unset, <<>>, <<"i", "d">>}

UnitCounts == {None} \cup 0..MaxCites

\* the responses tried for the identifier lookup
UnitArxivResponses ==
    {Response(200, <<S2Record(id, UnitPaperTitle, count)>>) :
         id \in UnitPaperIds, count \in UnitCounts}
        \cup {Response(200, <<S2Record(<<"i", "d">>, TitleOf(6, 7, <<>>, "plain"),
                                       MaxCites)>>),
              Response(200, <<>>), Response(404, <<>>), Response(0, <<>>)}

\* the responses tried for the title search
UnitSearchResponses ==
    {Response(200, <<S2Record(<<"i", "d">>, title, count)>>) :
         title \in UnitFoundTitles, count \in UnitCounts}
        \cup {Response(200, <<S2Record(Unset, UnitPaperTitle, MaxCites)>>),
              Response(200, <<>>), Response(429, <<>>), Response(0, <<>>)}

\* the responses tried for the embedding
UnitEmbeddingResponses ==
    {Response(200, <<1, 2, 3>>), Response(200, <<>>), Response(404, <<>>),
     Response(0, <<>>)}

UnitS2Enrich ==
    /\ pc = "unit"
    /\ call.fn = "SemanticScholarEnricher.enrich_paper"
    /\ LET r == SemanticScholarEnricher_enrich_paper(call.paper, call.s2)
       IN  ret' = [fn |-> call.fn, value |-> r.paper, s2_paper |-> r.s2_paper,
                   requests |-> r.requests]
    /\ pc' = "returned"
    /\ UNCHANGED <<env, config, papers, top_papers, intro, calls, returned, result,
                   s3_puts, ses_calls, call, stored>>

InitS2 ==
    /\ env = [k \in {} |-> Unset]
    /\ config = NoConfig
    /\ pc = "unit"
    /\ papers = <<>>
    /\ top_papers = <<>>
    /\ intro = NoSummary
    /\ calls = <<>>
    /\ returned = <<>>
    /\ result = NoResult
    /\ s3_puts = <<>>
    /\ ses_calls = <<>>
    /\ stored = {}
    /\ ret = NoReturn
    /\ \E source \in {"arxiv", PapersWithCode},
          arxiv \in UnitArxivResponses,
          search \in UnitSearchResponses,
          embedding \in UnitEmbeddingResponses :
          call = [fn |-> "SemanticScholarEnricher.enrich_paper",
                  paper |-> Paper(1, UnitPaperTitle, source),
                  s2 |-> [arxiv |-> arxiv, search |-> search,
                          embedding |-> embedding]]

NextS2 == UnitS2Enrich

SpecS2 == InitS2 /\ [][NextS2]_vars

S2Returned ==
    /\ pc = "returned"
    /\ ret.fn = "SemanticScholarEnricher.enrich_paper"

\* the record the paper was matched with, <<>> when there is none: the record
\* of the identifier lookup of an arXiv paper when that answered with one,
\* otherwise the first search result when its title is similar enough
Matched ==
    LET s2 == call.s2
    IN  IF call.paper.source = "arxiv" /\ s2.arxiv.status = 200
               /\ s2.arxiv.body # <<>>
        THEN s2.arxiv.body
        ELSE IF s2.search.status = 200 /\ s2.search.body # <<>>
                    /\ titles_similar(call.paper.title, s2.search.body[1].title,
                                      DefaultThreshold)
        THEN s2.search.body
        ELSE <<>>

----------------------------------------------------------------------------
(* GitHubEnricher.enrich_paper on its own *)

STR_see == <<"s", "e", "e", " ">>

\* the abstracts tried: no URL; a URL with a scheme; one without, ending in
\* .git; one with the host in capitals; a scheme-less one before one with a
\* scheme; a host with an owner only
UnitAbstracts ==
    {<<"n", "o", " ", "c", "o", "d", "e">>,
     STR_see \o STR_scheme_https \o STR_github_com \o <<"a", "/", "b">>,
     STR_see \o STR_github_com \o <<"a", "/", "b", ".", "g", "i", "t", ")">>,
     STR_see \o <<"G", "i", "t", "H", "u", "b", ".", "c", "o", "m", "/", "a", "/", "b">>,
     STR_github_com \o <<"a", "/", "b", " ">>
         \o STR_scheme_http \o STR_github_com \o <<"c", "/", "d">>,
     STR_see \o STR_github_com \o <<"a">>}

\* the titles tried: without and with a URL
UnitUrlTitles == {<<"P", "1">>, <<"P", "1", " ">> \o STR_github_com \o <<"t", "/", "u">>}

UnitOwnUrls == {NoUrl, <<>>, UrlOwn}

\* the responses of the GitHub API tried
UnitGitHubResponses ==
    {[status |-> 200, stars |-> s] : s \in {None} \cup 0..MaxStarCount}
        \cup {[status |-> s, stars |-> None] : s \in {404, 403, 0}}

UnitGitHubEnrich ==
    /\ pc = "unit"
    /\ call.fn = "GitHubEnricher.enrich_paper"
    /\ LET r == GitHubEnricher_enrich_paper(call.paper, call.gh)
       IN  ret' = [fn |-> call.fn, value |-> r.paper, requests |-> r.requests]
    /\ pc' = "returned"
    /\ UNCHANGED <<env, config, papers, top_papers, intro, calls, returned, result,
                   s3_puts, ses_calls, call, stored>>

InitGitHub ==
    /\ env = [k \in {} |-> Unset]
    /\ config = NoConfig
    /\ pc = "unit"
    /\ papers = <<>>
    /\ top_papers = <<>>
    /\ intro = NoSummary
    /\ calls = <<>>
    /\ returned = <<>>
    /\ result = NoResult
    /\ s3_puts = <<>>
    /\ ses_calls = <<>>
    /\ stored = {}
    /\ ret = NoReturn
    /\ \E abstract \in UnitAbstracts, title \in UnitUrlTitles,
          own \in UnitOwnUrls, gh \in UnitGitHubResponses :
          call = [fn |-> "GitHubEnricher.enrich_paper",
                  paper |-> [Paper(1, title, IF own = UrlOwn THEN PapersWithCode
                                             ELSE "arxiv")
                                EXCEPT !.abstract = abstract, !.github_url = own],
                  gh |-> gh]

NextGitHub == UnitGitHubEnrich

SpecGitHub == InitGitHub /\ [][NextGitHub]_vars

GitHubReturned ==
    /\ pc = "returned"
    /\ ret.fn = "GitHubEnricher.enrich_paper"

\* the URL the enricher is to use: the paper's own, otherwise the one extracted
\* from abstract and title, NoUrl when there is neither
UrlFound ==
    IF TruthyUrl(call.paper.github_url) THEN call.paper.github_url
    ELSE extract_github_url(call.paper.abstract \o <<" ">> \o call.paper.title)

\* C22: after GitHubEnricher.enrich_paper returns github_stars is set, never
\* None. The URL used is the paper's own github_url when it has one (it is not
\* replaced), otherwise the first URL the patterns extract from abstract and
\* title. When a URL is found the API is asked, and the stars are the count it
\* reports, 0 on 404, on any other non-200 status and on any error. When no URL
\* is found no request is made and the stars are 0.
C22_StarsSet ==
    GitHubReturned =>
        /\ ret.value.github_stars # None
        /\ TruthyUrl(call.paper.github_url) =>
               ret.value.github_url = call.paper.github_url
        /\ IF UrlFound # NoUrl
           THEN /\ ret.value.github_url = UrlFound
                /\ Len(ret.requests) = 1
                /\ ret.value.github_stars =
                       IF call.gh.status = 200 THEN OrZero(call.gh.stars) ELSE 0
           ELSE /\ ret.requests = <<>>
                /\ ret.value.github_stars = 0

----------------------------------------------------------------------------
(* Properties of the paper records during a run, under Spec *)

\* the value of a field of paper p that is filled once, and what it holds
\* while not yet filled
FilledOnce ==
    {"citation_count", "github_url", "github_stars", "specter2_embedding",
     "summary"}

NotFilled(field) ==
    CASE field = "citation_count" -> None
      [] field = "github_url" -> NoUrl
      [] field = "github_stars" -> None
      [] field = "specter2_embedding" -> NoEmbedding
      [] field = "summary" -> NoSummary

FieldOf(p, field) ==
    CASE field = "citation_count" -> <<p.citation_count>>
      [] field = "github_url" -> <<p.github_url>>
      [] field = "github_stars" -> <<p.github_stars>>
      [] field = "specter2_embedding" -> <<p.specter2_embedding>>
      [] field = "summary" -> <<p.summary>>

\* C23: within one run the citation count, repository URL, star count,
\* embedding and summary of a paper are filled monotonically: once a stage has
\* set one of them to a value, no later step changes or clears it. (score and
\* normalized_stars are not constrained.)
C23_FilledOnce ==
    [][\A i \in DOMAIN papers : \A j \in DOMAIN papers' :
           papers[i].id = papers'[j].id =>
               \A field \in FilledOnce :
                   FieldOf(papers[i], field) # <<NotFilled(field)>> =>
                       FieldOf(papers'[j], field) = FieldOf(papers[i], field)]_vars

\* a run that completed with a trending-feed paper that kept its own
\* repository URL and had every one of the five fields filled
C23_Witness ==
    /\ Done
    /\ \E i \in DOMAIN papers :
          /\ papers[i].source = "paperswithcode"
          /\ papers[i].github_url = UrlOwn
          /\ papers[i].abstract # <<>>
          /\ \A field \in FilledOnce :
                FieldOf(papers[i], field) # <<NotFilled(field)>>
          /\ papers[i].score # NoFrac

----------------------------------------------------------------------------
(* Properties of re-running publish_report, under SpecPublish *)

\* the keys a run on the given date writes
KeysOf(date) == {LatestKey(date), VersionedKey(date), HistoryKey(date)}

\* the keys of the objects in the bucket
StoredKeys == {o.key : o \in stored}

\* C24: the keys a completed publish_report call writes depend on the run date
\* only (not on the papers, the intro, the sender or the recipients), and a put
\* overwrites: when every run made on the bucket so far was made on the same
\* date, whether it completed or failed part-way, and the last one completed,
\* the bucket holds exactly the three objects a single successful run on that
\* date leaves, those of the last run.
C24_IdempotentOverwrite ==
    PublishReturned =>
        /\ {s3_puts[k].key : k \in DOMAIN s3_puts} = KeysOf(call.date)
        /\ (\A o \in stored : o.key.date = call.date) =>
               /\ StoredKeys = KeysOf(call.date)
               /\ stored = {s3_puts[k] : k \in DOMAIN s3_puts}
               /\ Cardinality(stored) = 3

\* a second run on the date of a first that failed: the second completed, with
\* another intro than the one it was first called with, and left three objects
C24_Witness ==
    /\ PublishReturned
    /\ call.n = 2
    /\ call.completed = 1
    /\ intro = DisabledIntro
    /\ \A o \in stored : o.key.date = call.date
    /\ Cardinality(stored) = 3

----------------------------------------------------------------------------
(* harvest_papers and the lookback window (specification SpecCutoff) *)

\* the published dates tried, as ages in days at the time of the harvest: today,
\* at the cutoff of a 7-day window, one day older, unparsable, missing
UnitDates == {0, 7, 8, BadDate, NoDate}

InitCutoff ==
    /\ env \in {e \in EnvValues : \A n \in DOMAIN e : e[n] = Unset}
    /\ config = NoConfig
    /\ pc = "unit"
    /\ papers = <<>>
    /\ top_papers = <<>>
    /\ intro = NoIntro
    /\ calls = <<>>
    /\ returned = <<>>
    /\ result = NoResult
    /\ s3_puts = <<>>
    /\ ses_calls = <<>>
    /\ stored = {}
    /\ ret = NoReturn
    /\ \E n \in 0..MaxEntries :
          \E placed \in [1..n -> [feed : FeedNames, published : UnitDates]] :
              call = [fn |-> "harvest_papers",
                      entries |-> [i \in 1..n |->
                                      [feed |-> placed[i].feed,
                                       title |-> <<"T">> \o NatToStr(i),
                                       published |-> placed[i].published]],
                      down |-> {},
                      days_back |-> 7]

NextCutoff == UnitHarvest

SpecCutoff == InitCutoff /\ [][NextCutoff]_vars

\* the feed entry a harvested paper was made from (its id is the entry's number)
EntryOf(paper) == call.entries[paper.id]

\* C25: every paper harvest_papers returns, from the preprint feed or the
\* trending feed, was published not earlier than the cutoff (now - days_back);
\* in particular no paper comes from an entry whose date is missing or does
\* not parse: the trending feed skips such items.
C25_NotOlderThanCutoff ==
    HarvestReturned =>
        \A i \in DOMAIN papers :
            /\ EntryOf(papers[i]).published \notin {BadDate, NoDate}
            /\ EntryOf(papers[i]).published <= call.days_back

\* a trending feed with an item without date, one with an unparsable date and
\* one published exactly at the cutoff: only the last was returned
C25_Witness ==
    /\ HarvestReturned
    /\ Len(call.entries) = 3
    /\ \A i \in DOMAIN call.entries : call.entries[i].feed = PapersWithCode
    /\ call.entries[1].published = NoDate
    /\ call.entries[2].published = BadDate
    /\ call.entries[3].published = 7
    /\ Len(papers) = 1
    /\ papers[1].id = 3

----------------------------------------------------------------------------
(* The order of the SemanticScholar lookups, under SpecS2 *)

\* the identifier lookup answered with a record
IdentifierHit == call.s2.arxiv.status = 200 /\ call.s2.arxiv.body # <<>>

\* the title search answered with at least one record
SearchHit == call.s2.search.status = 200 /\ call.s2.search.body # <<>>

\* the Jaccard similarity of the word sets of two titles (lower case, without
\* punctuation) is at least 0.8
JaccardAtLeast80(title1, title2) ==
    LET words1 == TitleWords(title1)
        words2 == TitleWords(title2)
    IN  /\ words1 # {}
        /\ words2 # {}
        /\ 10 * Cardinality(words1 \cap words2) >= 8 * Cardinality(words1 \cup words2)

Requested(endpoint) == \E k \in DOMAIN ret.requests : ret.requests[k] = endpoint

\* C26: enrich_paper looks a paper up by its identifier first, and only when
\* its source is 'arxiv'. It searches by title exactly when no identifier
\* lookup was made or that lookup gave no record. A search hit is accepted only
\* when the titles' Jaccard similarity is at least 0.8; an identifier hit is
\* accepted whatever its title. The embedding is asked for only after a match
\* with a paper id, and whether it arrives or not the citation count is the
\* one of the match.
C26_LookupOrder ==
    S2Returned =>
        /\ Requested("arxiv") <=> call.paper.source = "arxiv"
        /\ Requested("arxiv") => ret.requests[1] = "arxiv"
        /\ Requested("search") <=> ~(Requested("arxiv") /\ IdentifierHit)
        /\ Requested("arxiv") /\ IdentifierHit => ret.s2_paper = call.s2.arxiv.body
        /\ Requested("search") =>
               ret.s2_paper =
                   IF SearchHit /\ JaccardAtLeast80(call.paper.title,
                                                    call.s2.search.body[1].title)
                   THEN <<call.s2.search.body[1]>>
                   ELSE <<>>
        /\ Requested("embedding") <=>
               ret.s2_paper # <<>> /\ Truthy(ret.s2_paper[1].paperId)
        /\ Requested("embedding") => ret.requests[Len(ret.requests)] = "embedding"
        /\ ret.s2_paper # <<>> =>
               ret.value.citation_count = OrZero(ret.s2_paper[1].citationCount)
        /\ ret.value.specter2_embedding =
               IF Requested("embedding") /\ call.s2.embedding.status = 200
               THEN call.s2.embedding.body
               ELSE NoEmbedding

\* an arXiv paper unknown under its identifier, found by a search whose first
\* hit has one word more in its title (4 of 5 words shared), with an embedding
\* request that failed: the count is the one of the hit
C26_Witness ==
    /\ S2Returned
    /\ ret.requests = <<"arxiv", "search", "embedding">>
    /\ call.s2.arxiv.status = 404
    /\ call.s2.search.body # <<>>
    /\ call.s2.search.body[1].title = TitleOf(1, 4, <<5>>, "plain")
    /\ call.s2.embedding.status = 404
    /\ ret.value.citation_count = MaxCites
    /\ ret.value.specter2_embedding = NoEmbedding

----------------------------------------------------------------------------
(* The arguments lambda_handler gives to summarize_papers, under Spec *)

\* the API key configured for the backend selected
SelectedKey ==
    IF Lower(config.llm_backend) = STR_openai THEN config.openai_api_key
    ELSE config.anthropic_api_key

\* the API key configured for the other provider
OtherKey ==
    IF Lower(config.llm_backend) = STR_openai THEN config.anthropic_api_key
    ELSE config.openai_api_key

\* C27: lambda_handler calls summarize_papers with exactly the ranked top
\* papers, the configured backend name and model, and the API key of the
\* selected backend: the OpenAI key for 'openai', the Anthropic key for
\* 'anthropic', whatever the case of the name. The other provider's key is not
\* used: when the selected backend's key is missing the papers get the
\* 'disabled' placeholder and the intro is the 'disabled' sentence, even if
\* the other provider's key is there.
C27_SelectedBackendKey ==
    Invoked("summarize") =>
        /\ call.fn = "summarize_papers"
        /\ call.papers = [k \in DOMAIN top_papers |->
                             [papers[top_papers[k]] EXCEPT !.summary = NoSummary]]
        /\ call.backend = config.llm_backend
        /\ call.model = config.llm_model
        /\ Lower(config.llm_backend) \in {STR_openai, STR_anthropic}
        /\ call.api_key = SelectedKey
        /\ (Returned("summarize") /\ ~Truthy(SelectedKey)) =>
               /\ intro = DisabledIntro
               /\ \A k \in DOMAIN top_papers : Summaries[k] = DisabledSummary

\* a completed run with backend 'OpenAI', no OpenAI key and an Anthropic key:
\* its report carries the placeholders
C27_Witness ==
    /\ Done
    /\ Returned("publish")
    /\ config.llm_backend = STR_OpenAI
    /\ ~Truthy(SelectedKey)
    /\ Truthy(OtherKey)
    /\ top_papers # <<>>
    /\ call.api_key = Unset
    /\ intro = DisabledIntro

----------------------------------------------------------------------------
(* Storage writes, email and scores in a handler-driven run, under Spec *)

\* C28: in every run the email API is called only after the three storage
\* writes of the run (latest report, archive report, history snapshot) have
\* succeeded: there is no state in which an email call was made and fewer than
\* three objects were written.
C28_EmailAfterWrites ==
    ses_calls # <<>> =>
        /\ WrittenPrefix(3)
        /\ \A k \in DOMAIN s3_puts : s3_puts[k] \in stored
        /\ Len(ses_calls) = 1

\* a run that wrote the three objects, then sent the email, and completed
C28_Witness ==
    /\ Done
    /\ result.statusCode = 200
    /\ Len(ses_calls) = 1
    /\ WrittenPrefix(3)
    /\ result.publish_result # <<>>
    /\ result.publish_result[1].email_sent

\* C29: after rank_papers has returned every harvested paper has a score, the
\* papers cut off by top_k included, and no later stage clears it: every paper
\* handed to the publisher has a score, and the run never fails on formatting
\* a missing score.
C29_EveryPaperScored ==
    /\ Returned("rank") => \A i \in DOMAIN papers : papers[i].score.den # 0
    /\ Invoked("publish") =>
           \A k \in DOMAIN top_papers : papers[top_papers[k]].score.den # 0
    /\ Done => ~Contains(result.message,
                         "unsupported format string passed to NoneType.__format__")

\* a run that published fewer papers than it harvested, all of them scored
C29_Witness ==
    /\ Done
    /\ Returned("publish")
    /\ Len(top_papers) >= 1
    /\ Len(papers) > Len(top_papers)
    /\ \A i \in DOMAIN papers : papers[i].score.den # 0

\* C30: a failed email send does not fail the run: once the three storage
\* writes of a run have succeeded the run ends with a success result that
\* carries the three storage locations, whatever the email API did (email_sent
\* is false when the send was rejected or failed); a run in which a storage
\* write failed ends with a failure result.
C30_EmailFailureNotFatal ==
    (Done /\ Invoked("publish")) =>
        IF WrittenPrefix(3)
        THEN /\ result.statusCode = 200
             /\ result.publish_result # <<>>
             /\ result.publish_result[1].email_sent => ses_calls # <<>>
        ELSE Failure

============================================================================
